---------------------------- MODULE Spec2Model ----------------------------
(***************************************************************************)
(* A model of the disk-backed query cache: key derivation (hash_query and  *)
(* normalize_query), the ParquetStore (exists / load / dump and their      *)
(* parts, list, export and import_cache) and Database.query with its force *)
(* and cache flags, and Database.export_session.                           *)
(*                                                                         *)
(* A query text is a sequence of lexical tokens; a file of the store       *)
(* directory is named <<digest, extension>>.                               *)
(***************************************************************************)
EXTENDS Integers, Sequences, FiniteSets, TLC

VARIABLES
    normalize,   \* ParquetStore.normalize, fixed at construction
    memo,        \* the wrapper lru_cache puts around normalize_query: its cache and
                 \* its counts of hits and misses; followed where normalize_query
                 \* is called on its own through the wrapper, left as it is elsewhere
    files,       \* the directory cache_store: file name -> file content
    archive,     \* the zip file at the export path: <<>> while there is none, else
                 \* <<members>> with members: file name -> file content
    session,     \* Database.session
    workload,    \* the query texts the callers of this run use
    pc,          \* per caller: "idle", or "dump_metadata" between the two writes of dump
    call         \* per caller: the frame of the current (or last) call

vars == <<normalize, memo, files, archive, session, workload, pc, call>>

----------------------------------------------------------------------------
(* Bounds of the model *)

\* longest query text, in tokens, that the key-derivation checks enumerate
MaxQueryLen == 3

\* readings of the clock (datetime.now / time.time) are drawn from 1..MaxTime
MaxTime == 1

\* calls of normalize_query through its lru_cache wrapper that a run follows
MaxCalls == 5

----------------------------------------------------------------------------
(* Constants of the program *)

\* the default of normalize_query's max_length parameter: 40000 characters in the
\* code, 4 tokens here, so that texts on both sides of the size guard are in reach
max_length == 4

\* maxsize of the lru_cache around normalize_query: 1024 entries in the code, 2 here,
\* so that a few calls fill the cache and evict from it
maxsize == 2

\* the callers of the store
Procs == {1, 2}

----------------------------------------------------------------------------
(* Query texts *)

Keywords    == {"select", "SELECT"}
Identifiers == {"t", "T"}
Whitespace  == {" ", "\t"}
Comments    == {"--c"}
Alphabet    == Keywords \cup Identifiers \cup Whitespace \cup Comments

qa == <<"select", " ", "t">>
qb == <<"SELECT", "\t", "t", "--c">>
qc == <<"select", " ", "T">>
qd == <<" ", "select", " ", "t", "--c">>

\* the pairs of query texts the key-derivation runs work with
Workloads == {{qa, qb}, {qa, qc}, {qa, qd}, {qb, qd}}

RECURSIVE lstrip(_)
lstrip(s) == IF s # <<>> /\ Head(s) \in Whitespace THEN lstrip(Tail(s)) ELSE s

RECURSIVE rstrip(_)
rstrip(s) ==
    IF s # <<>> /\ s[Len(s)] \in Whitespace THEN rstrip(SubSeq(s, 1, Len(s) - 1)) ELSE s

\* str.strip()
strip(s) == rstrip(lstrip(s))

\* variant: keywords are left in the case they were written in
keyword_case_kept(s) == s

\* sqlparse keyword_case="upper": keywords are upper-cased, identifiers are kept
keyword_case(s) == [i \in 1..Len(s) |-> IF s[i] \in Keywords THEN "SELECT" ELSE s[i]]

\* sqlparse strip_comments: a comment is dropped, leaving a separator in its place
strip_comments(s) == [i \in 1..Len(s) |-> IF s[i] \in Comments THEN " " ELSE s[i]]

\* sqlparse reindent (which implies strip_whitespace, with indent_tabs=False):
\* every run of whitespace becomes one canonical separator, none at either end
RECURSIVE squeeze(_)
squeeze(s) ==
    IF s = <<>> THEN <<>>
    ELSE IF Head(s) \in Whitespace
         THEN LET rest == lstrip(s) IN IF rest = <<>> THEN <<>> ELSE <<" ">> \o squeeze(rest)
         ELSE <<Head(s)>> \o squeeze(Tail(s))

reindent(s) == squeeze(lstrip(s))

\* variant: the comments are dropped after the whitespace has been squeezed
sqlparse_format_comments_last(s) == strip_comments(reindent(keyword_case(s)))

sqlparse_format(s) == reindent(strip_comments(keyword_case(s)))

\* variant: a text of exactly max_length is returned as it is, too
normalize_query_guard_inclusive(query) ==
    IF Len(query) >= max_length THEN query ELSE sqlparse_format(strip(query))

normalize_query(query) ==
    IF Len(query) > max_length THEN query ELSE sqlparse_format(strip(query))

\* normalize_query(query, max_length): the function lru_cache wraps, max_length given
normalize_query_max_length(query, max_len) ==
    IF Len(query) > max_len THEN query ELSE sqlparse_format(strip(query))

\* the function lru_cache wraps, applied to the positional arguments of a call:
\* <<query>> leaves max_length at its default, <<query, max_length>> gives it
user_function(args) ==
    IF Len(args) = 1 THEN normalize_query(args[1])
    ELSE normalize_query_max_length(args[1], args[2])

\* the state of the wrapper lru_cache puts around the function, as cache_info() and
\* the order of eviction show it: the entries <<key, result>>, least recently used
\* first, and the counts of hits and misses; this is the wrapper before any call
lru_cache == [cache |-> <<>>, hits |-> 0, misses |-> 0]

\* positions of the entry of key in the cache (none, or one)
cache_get(cache, key) == {i \in DOMAIN cache : cache[i][1] = key}

\* the cache without its i-th entry
cache_without(cache, i) ==
    [j \in 1..(Len(cache) - 1) |-> IF j < i THEN cache[j] ELSE cache[j + 1]]

\* variant: the key of a call is its query alone, whatever max_length it was given
lru_cache_wrapper_keyed_by_query(w, args) ==
    LET key == <<args[1]>>
        hit == cache_get(w.cache, key)
    IN  IF hit # {}
        THEN LET i == CHOOSE i \in hit : TRUE
             IN  [wrapper  |-> [w EXCEPT !.cache = cache_without(w.cache, i) \o <<w.cache[i]>>,
                                         !.hits = w.hits + 1],
                  value    |-> w.cache[i][2]]
        ELSE LET result == user_function(args)
                 kept   == IF Len(w.cache) >= maxsize THEN Tail(w.cache) ELSE w.cache
             IN  [wrapper  |-> [w EXCEPT !.cache = kept \o <<<<key, result>>>>,
                                         !.misses = w.misses + 1],
                  value    |-> result]

\* a call through the wrapper: the key of a call is its argument tuple; a hit returns
\* the stored result and makes the entry the most recently used; a miss calls the
\* function, evicts the least recently used entry when the cache is full, and stores
\* the result as the most recently used
lru_cache_wrapper(w, args) ==
    LET key == args
        hit == cache_get(w.cache, key)
    IN  IF hit # {}
        THEN LET i == CHOOSE i \in hit : TRUE
             IN  [wrapper  |-> [w EXCEPT !.cache = cache_without(w.cache, i) \o <<w.cache[i]>>,
                                         !.hits = w.hits + 1],
                  value    |-> w.cache[i][2]]
        ELSE LET result == user_function(args)
                 kept   == IF Len(w.cache) >= maxsize THEN Tail(w.cache) ELSE w.cache
             IN  [wrapper  |-> [w EXCEPT !.cache = kept \o <<<<key, result>>>>,
                                         !.misses = w.misses + 1],
                  value    |-> result]

\* hashlib.sha1(...).hexdigest(): a collision-free encoding of the text as a number
TokenCode(t) ==
    CASE t = "select" -> 1 [] t = "SELECT" -> 2 [] t = "t" -> 3 [] t = "T" -> 4
      [] t = " " -> 5 [] t = "\t" -> 6 [] t = "--c" -> 7

RECURSIVE sha1(_)
sha1(s) ==
    IF s = <<>> THEN 0
    ELSE TokenCode(Head(s)) + (Cardinality(Alphabet) + 1) * sha1(Tail(s))

\* variant: the text is normalized whatever the flag says
hash_query_normalizing(query_string, norm) == sha1(normalize_query(query_string))

hash_query(query_string, norm) ==
    sha1(IF norm THEN normalize_query(query_string) ELSE query_string)

\* hash_query, its call of normalize_query going through the wrapper
hash_query_cached(w, query_string, norm) ==
    IF norm
    THEN LET n == lru_cache_wrapper(w, <<query_string>>)
         IN  [wrapper |-> n.wrapper, value |-> sha1(n.value)]
    ELSE [wrapper |-> w, value |-> sha1(query_string)]


----------------------------------------------------------------------------
(* Result tables (pandas.DataFrame) and their parquet form *)

I(n) == <<"int64", n>>

\* conftest.results: two rows of three equal values (two columns here)
R1 == [columns |-> <<"a", "b">>, rows |-> << <<I(0), I(0)>>, <<I(1), I(1)>> >>]
R2 == [columns |-> <<"a", "b">>, rows |-> << <<I(2), I(3)>> >>]
\* test_invalid_arrow_type: a column of uuid objects
Ruuid == [columns |-> <<"uuid_col">>, rows |-> << <<<<"object", 1>>>>, <<<<"object", 2>>>> >>]

Results == {R1, R2, Ruuid}

\* pyarrow cannot convert a column of arbitrary Python objects
arrow_invalid(df) ==
    \E r \in 1..Len(df.rows) : \E c \in 1..Len(df.columns) : df.rows[r][c][1] = "object"

\* DataFrame.to_parquet: the file holds the schema and the data column by column
to_parquet(df) ==
    [schema |-> df.columns,
     nrows  |-> Len(df.rows),
     data   |-> [c \in 1..Len(df.columns) |-> [r \in 1..Len(df.rows) |-> df.rows[r][c]]]]

\* pandas.read_parquet: rebuilds the rows from the columns
read_parquet(f) ==
    [columns |-> f.schema,
     rows    |-> [r \in 1..f.nrows |-> [c \in 1..Len(f.schema) |-> f.data[c][r]]]]

\* a frame of mixed column types: integers, floats and strings
Rmixed ==
    [columns |-> <<"i", "f", "s">>,
     rows    |-> << <<I(1), <<"float64", 15>>, <<"str", "x">>>>,
                    <<I(0), <<"float64", 25>>, <<"str", "y">>>> >>]

\* the frames the serializers are given
Tables == {R1, Ruuid, Rmixed}

\* joblib.dump(results, filepath, protocol=4): the pickle of the frame, which holds its
\* axes and its block of values row after row; any Python object can be pickled
joblib_dump(df) ==
    [axes   |-> <<df.columns, Len(df.rows)>>,
     values |-> [i \in 1..(Len(df.rows) * Len(df.columns)) |->
                   df.rows[((i - 1) \div Len(df.columns)) + 1]
                          [((i - 1) % Len(df.columns)) + 1]]]

\* variant: the block of values is read column after column
joblib_load_column_major(f) ==
    LET ncols == Len(f.axes[1])
    IN  [columns |-> f.axes[1],
         rows    |-> [r \in 1..f.axes[2] |->
                        [c \in 1..ncols |-> f.values[(c - 1) * f.axes[2] + r]]]]

\* joblib.load: the frame rebuilt from the pickle
joblib_load(f) ==
    LET ncols == Len(f.axes[1])
    IN  [columns |-> f.axes[1],
         rows    |-> [r \in 1..f.axes[2] |->
                        [c \in 1..ncols |-> f.values[(r - 1) * ncols + c]]]]

----------------------------------------------------------------------------
(* Metadata mappings (dict) and their JSON form *)

Str(x) == <<"str", x>>
Num(x) == <<"number", x>>

\* conftest.metadata: the caller's own query_string and cache_file entries
M1 == [k \in {"query_string", "cache_file", "executed_at", "duration"} |->
          CASE k = "query_string" -> Str(<<"SELECT", " ", "T">>)
            [] k = "cache_file"   -> Str(<<0, ".parquet">>)
            [] k = "executed_at"  -> Str(1)
            [] k = "duration"     -> Num(600)]

\* a mapping that holds a datetime object instead of its isoformat() string
Mbad == [M1 EXCEPT !["executed_at"] = <<"datetime", 1>>]

Metadatas == {M1, Mbad}

\* json.dumps raises TypeError on a value that has no JSON form
json_serializable(m) == \A k \in DOMAIN m : m[k][1] \in {"str", "number"}

\* json.dumps: the text of an object, one "key": value member per key
json_dumps(m) == {<<k, m[k]>> : k \in DOMAIN m}

\* json.loads: the mapping a text of members stands for
json_loads(text) ==
    [k \in {member[1] : member \in text} |->
        (CHOOSE member \in text : member[1] = k)[2]]

\* the mapping m with m[k] = v added or replaced (dict item assignment)
setitem(m, k, v) == [x \in DOMAIN m \cup {k} |-> IF x = k THEN v ELSE m[x]]

----------------------------------------------------------------------------
(* ParquetStore *)

get_metadata_filepath(query_string) == <<hash_query(query_string, normalize), ".json">>

get_cache_filepath(query_string) == <<hash_query(query_string, normalize), ".parquet">>

\* Path.exists on the directory fs
path_exists(fs, f) == f \in DOMAIN fs

\* Path.write_text / to_parquet: create or replace one file of fs
write_file(fs, f, content) ==
    [x \in DOMAIN fs \cup {f} |-> IF x = f THEN content ELSE fs[x]]

\* variant: only the metadata artifact is looked for
exists_metadata_only(fs, query_string) ==
    path_exists(fs, get_metadata_filepath(query_string))

\* the store's methods read the directory fs they are given
exists(fs, query_string) ==
    /\ path_exists(fs, get_metadata_filepath(query_string))
    /\ path_exists(fs, get_cache_filepath(query_string))

\* what a call gives back: the exception it raised ("" for none) and its value, if any
Returned(v) == [raised |-> "", value |-> <<v>>]
Raised(e)   == [raised |-> e, value |-> <<>>]

NoMetadata == "ValueError: Metadata for the given query_string does not exist."
NoResults  == "ValueError: Cached results for the given query_string do not exist."

\* variant: the payload's path is tested, and the metadata file is read all the same
load_metadata_by_cache_file(fs, query_string) ==
    LET metadata_file == get_metadata_filepath(query_string)
    IN  IF path_exists(fs, get_cache_filepath(query_string))
        THEN IF path_exists(fs, metadata_file)
             THEN Returned(json_loads(fs[metadata_file]))
             ELSE Raised("FileNotFoundError")
        ELSE Raised(NoMetadata)

load_metadata(fs, query_string) ==
    LET metadata_file == get_metadata_filepath(query_string)
    IN  IF path_exists(fs, metadata_file)
        THEN Returned(json_loads(fs[metadata_file]))
        ELSE Raised(NoMetadata)

load_results(fs, query_string) ==
    LET cache_file == get_cache_filepath(query_string)
    IN  IF path_exists(fs, cache_file)
        THEN Returned(read_parquet(fs[cache_file]))
        ELSE Raised(NoResults)

\* variant: the metadata is loaded first
load_metadata_first(fs, query_string) ==
    LET metadata == load_metadata(fs, query_string)
    IN  IF metadata.raised # "" THEN Raised(metadata.raised)
        ELSE LET results == load_results(fs, query_string)
             IN  IF results.raised # "" THEN Raised(results.raised)
                 ELSE Returned(<<results.value[1], metadata.value[1]>>)

\* the tuple expression evaluates load_results first, then load_metadata
load(fs, query_string) ==
    LET results == load_results(fs, query_string)
    IN  IF results.raised # "" THEN Raised(results.raised)
        ELSE LET metadata == load_metadata(fs, query_string)
             IN  IF metadata.raised # "" THEN Raised(metadata.raised)
                 ELSE Returned(<<results.value[1], metadata.value[1]>>)

\* variant: the query text is stored normalized whatever the store's flag says
injected_normalized(query_string, metadata) ==
    setitem(setitem(metadata, "cache_file", Str(get_cache_filepath(query_string))),
            "query_string", Str(normalize_query(query_string)))

\* the caller's mapping after the two item assignments of dump_metadata
injected(query_string, metadata) ==
    setitem(setitem(metadata, "cache_file", Str(get_cache_filepath(query_string))),
            "query_string",
            Str(IF normalize THEN normalize_query(query_string) ELSE query_string))

\* variant: the mapping is written as given, without the two derived fields
dump_metadata_as_given(fs, query_string, metadata) ==
    IF json_serializable(metadata)
    THEN [raised |-> "", metadata |-> metadata,
          files |-> write_file(fs, get_metadata_filepath(query_string),
                               json_dumps(metadata))]
    ELSE [raised |-> "TypeError", metadata |-> metadata, files |-> fs]

\* variant: a derived field is set only where the caller's mapping has none (setdefault)
dump_metadata_keeping_callers(fs, query_string, metadata) ==
    LET i == injected(query_string, metadata)
        m == [k \in DOMAIN i |-> IF k \in DOMAIN metadata THEN metadata[k] ELSE i[k]]
    IN  IF json_serializable(m)
        THEN [raised |-> "", metadata |-> m,
              files |-> write_file(fs, get_metadata_filepath(query_string), json_dumps(m))]
        ELSE [raised |-> "TypeError", metadata |-> m, files |-> fs]

\* variant: a metadata file that is there already is left as it is
dump_metadata_keeping_existing(fs, query_string, metadata) ==
    LET m == injected(query_string, metadata)
        f == get_metadata_filepath(query_string)
    IN  IF json_serializable(m)
        THEN [raised |-> "", metadata |-> m,
              files |-> IF path_exists(fs, f) THEN fs ELSE write_file(fs, f, json_dumps(m))]
        ELSE [raised |-> "TypeError", metadata |-> m, files |-> fs]

\* dump_metadata on the directory fs: the exception raised, the directory and
\* the caller's mapping afterwards.  json.dumps runs before write_text opens the file.
dump_metadata(fs, query_string, metadata) ==
    LET m == injected(query_string, metadata)
    IN  IF json_serializable(m)
        THEN [raised |-> "", metadata |-> m,
              files |-> write_file(fs, get_metadata_filepath(query_string), json_dumps(m))]
        ELSE [raised |-> "TypeError", metadata |-> m, files |-> fs]

\* variant: the payload files of the other keys are removed before the write
dump_results_sole_payload(fs, query_string, results) ==
    IF arrow_invalid(results)
    THEN [raised |-> "ArrowInvalid", files |-> fs]
    ELSE [raised |-> "",
          files |-> write_file([f \in {g \in DOMAIN fs : g[2] # ".parquet"} |-> fs[f]],
                               get_cache_filepath(query_string), to_parquet(results))]

\* dump_results on the directory fs: pyarrow converts the frame before the file is opened
dump_results(fs, query_string, results) ==
    IF arrow_invalid(results)
    THEN [raised |-> "ArrowInvalid", files |-> fs]
    ELSE [raised |-> "",
          files |-> write_file(fs, get_cache_filepath(query_string), to_parquet(results))]


\* the elements of a sequence
Range(s) == {s[i] : i \in DOMAIN s}

\* the ways of enumerating a finite set once each: the order a directory listing or
\* the iteration of a Python set may take
Orders(S) ==
    {o \in [1..Cardinality(S) -> S] :
        \A i \in 1..Cardinality(S) : \A j \in 1..Cardinality(S) : i # j => o[i] # o[j]}

\* cache_store.glob("*.json"): the metadata files of fs, in any order
glob_json(fs) == Orders({f \in DOMAIN fs : f[2] = ".json"})

\* the keys of a mapping in the order its dict (and its JSON text) holds them: the
\* caller's keys as conftest.metadata or Database.query wrote them, then the keys
\* dump_metadata added
dict_keys(m) ==
    LET order == IF "db_name" \in DOMAIN m
                 THEN <<"db_name", "cachesql", "username", "executed_at", "duration",
                        "cache_file", "query_string">>
                 ELSE <<"query_string", "cache_file", "executed_at", "duration">>
    IN  SelectSeq(order, LAMBDA k : k \in DOMAIN m)

default_metadata == <<"query_string", "cache_file", "executed_at", "duration">>

NaN == <<"float", "nan">>

\* the columns pandas gives a frame built from records: keys in order of first appearance
RECURSIVE record_columns(_, _)
record_columns(records, seen) ==
    IF records = <<>> THEN seen
    ELSE record_columns(Tail(records),
             seen \o SelectSeq(dict_keys(Head(records)), LAMBDA k : k \notin Range(seen)))

\* pd.DataFrame(records): one row per record, NaN where a record lacks a column
DataFrame(records) ==
    LET columns == record_columns(records, <<>>)
    IN  [columns |-> columns,
         rows    |-> [i \in 1..Len(records) |->
                        [j \in 1..Len(columns) |->
                            IF columns[j] \in DOMAIN records[i]
                            THEN records[i][columns[j]] ELSE NaN]]]

\* variant: the frame is built from the records also when there are none
list_without_default(fs, order) ==
    DataFrame([i \in 1..Len(order) |-> json_loads(fs[order[i]])])

\* variant: only the metadata files that have their payload file are listed
list_entries(fs, order) ==
    LET entries    == SelectSeq(order, LAMBDA f : <<f[1], ".parquet">> \in DOMAIN fs)
        cache_list == [i \in 1..Len(entries) |-> json_loads(fs[entries[i]])]
    IN  IF Len(cache_list) = 0
        THEN [columns |-> default_metadata, rows |-> <<>>]
        ELSE DataFrame(cache_list)

\* ParquetStore.list on the directory fs, whose glob lists the metadata files in order
list(fs, order) ==
    LET cache_list == [i \in 1..Len(order) |-> json_loads(fs[order[i]])]
    IN  IF Len(cache_list) = 0
        THEN [columns |-> default_metadata, rows |-> <<>>]
        ELSE DataFrame(cache_list)

\* FileStore, the store of the cachesql package, names "query" the field that
\* ParquetStore names "query_string": a frame of list() under FileStore's names
FileStore_columns(df) ==
    [df EXCEPT !.columns =
        [j \in 1..Len(df.columns) |->
            IF df.columns[j] = "query_string" THEN "query" ELSE df.columns[j]]]

\* df.<name>: the values of one column of a frame, top to bottom
column(df, name) ==
    LET j == CHOOSE i \in 1..Len(df.columns) : df.columns[i] = name
    IN  [i \in 1..Len(df.rows) |-> df.rows[i][j]]

\* variant: a query without entry is passed over instead of raising
RECURSIVE zip_write_skipping_missing(_, _, _)
zip_write_skipping_missing(fs, queries, myzip) ==
    IF queries = <<>> THEN [raised |-> "", archive |-> myzip]
    ELSE LET cache_file    == get_cache_filepath(Head(queries))
             metadata_file == get_metadata_filepath(Head(queries))
         IN  IF path_exists(fs, cache_file) /\ path_exists(fs, metadata_file)
             THEN zip_write_skipping_missing(fs, Tail(queries),
                      write_file(write_file(myzip, cache_file, fs[cache_file]),
                                 metadata_file, fs[metadata_file]))
             ELSE zip_write_skipping_missing(fs, Tail(queries), myzip)

\* variant: only the payload file of each query is written to the archive
RECURSIVE zip_write_payload_only(_, _, _)
zip_write_payload_only(fs, queries, myzip) ==
    IF queries = <<>> THEN [raised |-> "", archive |-> myzip]
    ELSE LET cache_file == get_cache_filepath(Head(queries))
         IN  IF ~path_exists(fs, cache_file)
             THEN [raised |-> "FileNotFoundError", archive |-> myzip]
             ELSE zip_write_payload_only(fs, Tail(queries),
                                         write_file(myzip, cache_file, fs[cache_file]))

\* the loop of export over the queries left, on the members written so far: ZipFile.write
\* raises on a missing file, and the with statement closes the archive as it stands
RECURSIVE zip_write(_, _, _)
zip_write(fs, queries, myzip) ==
    IF queries = <<>> THEN [raised |-> "", archive |-> myzip]
    ELSE LET cache_file    == get_cache_filepath(Head(queries))
             metadata_file == get_metadata_filepath(Head(queries))
         IN  IF ~path_exists(fs, cache_file)
             THEN [raised |-> "FileNotFoundError", archive |-> myzip]
             ELSE LET zip1 == write_file(myzip, cache_file, fs[cache_file])
                  IN  IF ~path_exists(fs, metadata_file)
                      THEN [raised |-> "FileNotFoundError", archive |-> zip1]
                      ELSE zip_write(fs, Tail(queries),
                                     write_file(zip1, metadata_file, fs[metadata_file]))

\* the queries export packs: "queries or self.list().query_string" takes the listed
\* ones when queries is None (<<>>) and also when it is an empty collection
queries_or_listed(fs, queries, order) ==
    IF queries # <<>> /\ Len(queries[1]) > 0
    THEN queries[1]
    ELSE LET listed == column(list(fs, order), "query_string")
         IN  [i \in 1..Len(listed) |-> listed[i][2]]

\* ParquetStore.export on the directory fs: the exception raised and the zip file written.
\* queries is <<>> when omitted, else <<the queries in the order they are iterated>>.
export(fs, queries, order) ==
    zip_write(fs, queries_or_listed(fs, queries, order), <<>>)

\* variant: a member whose name the directory already has is not extracted
extractall_keeping_existing(fs, myzip) ==
    [f \in DOMAIN fs \cup DOMAIN myzip |-> IF f \in DOMAIN fs THEN fs[f] ELSE myzip[f]]

\* variant: the directory is emptied before the members are extracted
extractall_replacing_directory(fs, myzip) == myzip

\* ZipFile.extractall into the directory fs: every member is written under its name
extractall(fs, myzip) ==
    [f \in DOMAIN fs \cup DOMAIN myzip |-> IF f \in DOMAIN myzip THEN myzip[f] ELSE fs[f]]

\* ParquetStore.import_cache on the directory fs, from the zip file zipfile (<<>>: no file)
import_cache(fs, zipfile) ==
    IF zipfile = <<>>
    THEN [raised |-> "FileNotFoundError", files |-> fs]
    ELSE [raised |-> "", files |-> extractall(fs, zipfile[1])]


----------------------------------------------------------------------------
(* Serializers *)

ParquetSerializer == [fmt |-> "parquet", extension |-> ".parquet"]
JoblibSerializer  == [fmt |-> "joblib",  extension |-> ".joblib"]

Serializers == {ParquetSerializer, JoblibSerializer}

\* the ValueError ParquetSerializer.dump raises in place of pyarrow's ArrowInvalid
FormatUnsupported ==
    "ValueError: It seems that your query is returning a column with a type not yet supported by Arrow. Consider using 'joblib' instead: Database(uri='...', store_backend='joblib')"

\* the backend the message of an exception names as remediation, if any
remediation(raised) == IF raised = FormatUnsupported THEN "store_backend='joblib'" ELSE ""

\* variant: pyarrow's exception leaves dump as it is
ParquetSerializer_dump_uncaught(fs, results, filepath) ==
    IF arrow_invalid(results)
    THEN [raised |-> "ArrowInvalid", files |-> fs]
    ELSE [raised |-> "", files |-> write_file(fs, filepath, to_parquet(results))]

\* ParquetSerializer.dump on the directory fs.  The compression codec changes the
\* bytes of the file, not the frame it holds.
ParquetSerializer_dump(fs, results, filepath) ==
    IF arrow_invalid(results)
    THEN [raised |-> FormatUnsupported, files |-> fs]
    ELSE [raised |-> "", files |-> write_file(fs, filepath, to_parquet(results))]

JoblibSerializer_dump(fs, results, filepath) ==
    [raised |-> "", files |-> write_file(fs, filepath, joblib_dump(results))]

\* serializer.dump(results, filepath) for the serializer s
Serializer_dump(s, fs, results, filepath) ==
    IF s.fmt = "parquet"
    THEN ParquetSerializer_dump(fs, results, filepath)
    ELSE JoblibSerializer_dump(fs, results, filepath)

\* serializer.load(filepath) for the serializer s: pd.read_parquet or joblib.load,
\* either of which raises when there is no file at the path
Serializer_load(s, fs, filepath) ==
    IF ~path_exists(fs, filepath) THEN Raised("FileNotFoundError")
    ELSE IF s.fmt = "parquet"
         THEN Returned(read_parquet(fs[filepath]))
         ELSE Returned(joblib_load(fs[filepath]))

\* the path the serializers are used on directly: a file of the serializer's extension
\* that is not an artifact of any query
tmp_file(s) == <<0, s.extension>>

\* FileStore.get_cache_filepath: the digest with the extension of the store's serializer
FileStore_get_cache_filepath(s, query) == <<hash_query(query, normalize), s.extension>>

\* FileStore.dump_results: the payload is written by the store's serializer, whose
\* exception leaves the store as it was raised
FileStore_dump_results(s, fs, query, results) ==
    Serializer_dump(s, fs, results, FileStore_get_cache_filepath(s, query))

\* FileStore.load_results: not-found when the payload is absent, else the
\* serializer's load
FileStore_load_results(s, fs, query) ==
    LET cache_file == FileStore_get_cache_filepath(s, query)
    IN  IF path_exists(fs, cache_file)
        THEN Serializer_load(s, fs, cache_file)
        ELSE Raised("ValueError: Cached results for the given query do not exist.")

----------------------------------------------------------------------------
(* Calls.  A frame keeps the arguments of a caller's current or last call,  *)
(* the exception it raised and what it returned; an optional value is a     *)
(* sequence of length 0 or 1.                                               *)

Times == 1..MaxTime

NoCall ==
    [op |-> "none", query_string |-> <<>>, queries |-> <<>>, backend |-> "",
     results |-> <<>>, metadata |-> <<>>,
     max_length |-> <<>>,
     force |-> FALSE, cache |-> TRUE, cached |-> FALSE, executed |-> 0, raised |-> "", returned |-> <<>>]

Frame(op, q, results, metadata) ==
    [NoCall EXCEPT !.op = op, !.query_string = q, !.results = results, !.metadata = metadata]

Init ==
    /\ normalize \in BOOLEAN
    /\ memo = lru_cache
    /\ files = <<>>
    /\ archive = <<>>
    /\ session = {}
    /\ workload = {qa, qb}
    /\ pc = [p \in Procs |-> "idle"]
    /\ call = [p \in Procs |-> NoCall]

\* the same store, used with each pair of Workloads
StoreInit ==
    /\ normalize \in BOOLEAN
    /\ memo = lru_cache
    /\ files = <<>>
    /\ archive = <<>>
    /\ session = {}
    /\ workload \in Workloads
    /\ pc = [p \in Procs |-> "idle"]
    /\ call = [p \in Procs |-> NoCall]

\* ParquetStore.dump_results called on its own
DumpResults(p) ==
    /\ pc[p] = "idle"
    /\ \E q \in workload, results \in Results :
         LET d == dump_results(files, q, results)
         IN  /\ files' = d.files
             /\ call' = [call EXCEPT ![p] =
                    [Frame("dump_results", q, <<results>>, <<>>) EXCEPT !.raised = d.raised]]
    /\ UNCHANGED <<normalize, memo, archive, session, workload, pc>>

\* ParquetStore.dump_metadata called on its own
DumpMetadata(p) ==
    /\ pc[p] = "idle"
    /\ \E q \in workload, metadata \in Metadatas :
         LET d == dump_metadata(files, q, metadata)
         IN  /\ files' = d.files
             /\ call' = [call EXCEPT ![p] =
                    [Frame("dump_metadata", q, <<>>, <<d.metadata>>) EXCEPT !.raised = d.raised]]
    /\ UNCHANGED <<normalize, memo, archive, session, workload, pc>>

\* variant: dump goes on to dump_metadata although dump_results raised
Dump_going_on(p) ==
    /\ pc[p] = "idle"
    /\ \E q \in workload, results \in Results, metadata \in Metadatas :
         LET d == dump_results(files, q, results)
         IN  /\ files' = d.files
             /\ call' = [call EXCEPT ![p] =
                    [Frame("dump", q, <<results>>, <<metadata>>) EXCEPT !.raised = d.raised]]
             /\ pc' = [pc EXCEPT ![p] = "dump_metadata"]
    /\ UNCHANGED <<normalize, memo, archive, session, workload>>

\* ParquetStore.dump, first statement: dump_results.  An exception leaves the call;
\* otherwise the caller stands between the two writes.
Dump(p) ==
    /\ pc[p] = "idle"
    /\ \E q \in workload, results \in Results, metadata \in Metadatas :
         LET d == dump_results(files, q, results)
         IN  /\ files' = d.files
             /\ call' = [call EXCEPT ![p] =
                    [Frame("dump", q, <<results>>, <<metadata>>) EXCEPT !.raised = d.raised]]
             /\ pc' = [pc EXCEPT ![p] = IF d.raised = "" THEN "dump_metadata" ELSE "idle"]
    /\ UNCHANGED <<normalize, memo, archive, session, workload>>

\* what caller p dumps: the result and the metadata of an execution of its own
OwnResults(p)  == IF p = 1 THEN R1 ELSE R2
OwnMetadata(p) == [M1 EXCEPT !["executed_at"] = Str(p)]

\* variant: the first statement of dump leaves the payload unwritten
DumpOwn_payload_unwritten(p) ==
    /\ pc[p] = "idle"
    /\ \E q \in workload :
         LET d == dump_results(files, q, OwnResults(p))
         IN  /\ files' = files
             /\ call' = [call EXCEPT ![p] =
                    [Frame("dump", q, <<OwnResults(p)>>, <<OwnMetadata(p)>>) EXCEPT
                        !.raised = d.raised]]
             /\ pc' = [pc EXCEPT ![p] = IF d.raised = "" THEN "dump_metadata" ELSE "idle"]
    /\ UNCHANGED <<normalize, memo, archive, session, workload>>

\* ParquetStore.dump, first statement, by a caller that dumps its own execution
DumpOwn(p) ==
    /\ pc[p] = "idle"
    /\ \E q \in workload :
         LET d == dump_results(files, q, OwnResults(p))
         IN  /\ files' = d.files
             /\ call' = [call EXCEPT ![p] =
                    [Frame("dump", q, <<OwnResults(p)>>, <<OwnMetadata(p)>>) EXCEPT
                        !.raised = d.raised]]
             /\ pc' = [pc EXCEPT ![p] = IF d.raised = "" THEN "dump_metadata" ELSE "idle"]
    /\ UNCHANGED <<normalize, memo, archive, session, workload>>

\* ParquetStore.dump, second statement: dump_metadata; then, for a dump made by
\* Database.query, the rest of query: session.add and return results.
FinishDump(p) ==
    /\ pc[p] = "dump_metadata"
    /\ LET c  == call[p]
           d  == dump_metadata(files, c.query_string, c.metadata[1])
           ok == d.raised = ""
       IN  /\ files' = d.files
           /\ call' = [call EXCEPT ![p] =
                  [c EXCEPT !.metadata = <<d.metadata>>,
                            !.raised   = d.raised,
                            !.returned = IF ok /\ c.op = "query" THEN c.results ELSE <<>>]]
           /\ session' = IF ok /\ c.op = "query"
                         THEN session \cup {c.query_string} ELSE session
    /\ pc' = [pc EXCEPT ![p] = "idle"]
    /\ UNCHANGED <<normalize, memo, archive, workload>>

\* ParquetStore.load_metadata called on its own
LoadMetadata(p) ==
    /\ pc[p] = "idle"
    /\ \E q \in workload :
         LET l == load_metadata(files, q)
         IN  call' = [call EXCEPT ![p] =
                 [Frame("load_metadata", q, <<>>, <<>>) EXCEPT
                     !.raised = l.raised, !.returned = l.value]]
    /\ UNCHANGED <<normalize, memo, archive, files, session, workload, pc>>

\* ParquetStore.load_results called on its own
LoadResults(p) ==
    /\ pc[p] = "idle"
    /\ \E q \in workload :
         LET l == load_results(files, q)
         IN  call' = [call EXCEPT ![p] =
                 [Frame("load_results", q, <<>>, <<>>) EXCEPT
                     !.raised = l.raised, !.returned = l.value]]
    /\ UNCHANGED <<normalize, memo, archive, files, session, workload, pc>>

\* ParquetStore.list, the directory being listed in some order
List(p) ==
    /\ pc[p] = "idle"
    /\ \E order \in glob_json(files) :
         call' = [call EXCEPT ![p] =
             [Frame("list", <<>>, <<>>, <<>>) EXCEPT !.returned = <<list(files, order)>>]]
    /\ UNCHANGED <<normalize, memo, archive, files, session, workload, pc>>

\* the values the queries argument of export takes: omitted, an empty list, or a list
\* of some of the workload's queries
QueryLists == {<<>>} \cup {<<o>> : o \in UNION {Orders(K) : K \in SUBSET workload}}

\* ParquetStore.export: the zip file is created (or replaced) at the path
Export(p) ==
    /\ pc[p] = "idle"
    /\ \E queries \in QueryLists, order \in glob_json(files) :
         LET e == export(files, queries, order)
         IN  /\ archive' = <<e.archive>>
             /\ call' = [call EXCEPT ![p] =
                    [Frame("export", <<>>, <<>>, <<>>) EXCEPT
                        !.queries = queries, !.raised = e.raised]]
    /\ UNCHANGED <<normalize, memo, files, session, workload, pc>>

\* ParquetStore.import_cache into this store
ImportCache(p) ==
    /\ pc[p] = "idle"
    /\ LET i == import_cache(files, archive)
       IN  /\ files' = i.files
           /\ call' = [call EXCEPT ![p] =
                  [Frame("import_cache", <<>>, <<>>, <<>>) EXCEPT !.raised = i.raised]]
    /\ UNCHANGED <<normalize, memo, archive, session, workload, pc>>

\* serializer.dump called on its own, as the tests of the serializers do
SerializerDump(p) ==
    /\ pc[p] = "idle"
    /\ \E s \in Serializers, results \in Tables :
         LET d == Serializer_dump(s, files, results, tmp_file(s))
         IN  /\ files' = d.files
             /\ call' = [call EXCEPT ![p] =
                    [Frame("serializer.dump", <<>>, <<results>>, <<>>) EXCEPT
                        !.backend = s.fmt, !.raised = d.raised]]
    /\ UNCHANGED <<normalize, memo, archive, session, workload, pc>>

\* serializer.load called on its own
SerializerLoad(p) ==
    /\ pc[p] = "idle"
    /\ \E s \in Serializers :
         LET l == Serializer_load(s, files, tmp_file(s))
         IN  call' = [call EXCEPT ![p] =
                 [Frame("serializer.load", <<>>, <<>>, <<>>) EXCEPT
                     !.backend = s.fmt, !.raised = l.raised, !.returned = l.value]]
    /\ UNCHANGED <<normalize, memo, archive, files, session, workload, pc>>

\* FileStore.dump_results of a store constructed with the backend s
FileStoreDumpResults(p) ==
    /\ pc[p] = "idle"
    /\ \E s \in Serializers, q \in workload, results \in Tables :
         LET d == FileStore_dump_results(s, files, q, results)
         IN  /\ files' = d.files
             /\ call' = [call EXCEPT ![p] =
                    [Frame("FileStore.dump_results", q, <<results>>, <<>>) EXCEPT
                        !.backend = s.fmt, !.raised = d.raised]]
    /\ UNCHANGED <<normalize, memo, archive, session, workload, pc>>

\* FileStore.load_results of a store constructed with the backend s
FileStoreLoadResults(p) ==
    /\ pc[p] = "idle"
    /\ \E s \in Serializers, q \in workload :
         LET l == FileStore_load_results(s, files, q)
         IN  call' = [call EXCEPT ![p] =
                 [Frame("FileStore.load_results", q, <<>>, <<>>) EXCEPT
                     !.backend = s.fmt, !.raised = l.raised, !.returned = l.value]]
    /\ UNCHANGED <<normalize, memo, archive, files, session, workload, pc>>

\* ParquetStore.exists, first operand of its "and": metadata_file.exists().  When it
\* is false the call returns False; otherwise the caller goes on to the second operand.
Exists(p) ==
    /\ pc[p] = "idle"
    /\ \E q \in workload :
         LET found == path_exists(files, get_metadata_filepath(q))
         IN  /\ call' = [call EXCEPT ![p] =
                    [Frame("exists", q, <<>>, <<>>) EXCEPT
                        !.returned = IF found THEN <<>> ELSE <<FALSE>>]]
             /\ pc' = [pc EXCEPT ![p] = IF found THEN "exists_cache_file" ELSE "idle"]
    /\ UNCHANGED <<normalize, memo, archive, files, session, workload>>

\* ParquetStore.exists, second operand: cache_file.exists()
FinishExists(p) ==
    /\ pc[p] = "exists_cache_file"
    /\ call' = [call EXCEPT ![p].returned =
                  <<path_exists(files, get_cache_filepath(call[p].query_string))>>]
    /\ pc' = [pc EXCEPT ![p] = "idle"]
    /\ UNCHANGED <<normalize, memo, archive, files, session, workload>>

\* ParquetStore.load, first element of its tuple: load_results
Load(p) ==
    /\ pc[p] = "idle"
    /\ \E q \in workload :
         LET l == load_results(files, q)
         IN  /\ call' = [call EXCEPT ![p] =
                    [Frame("load", q, l.value, <<>>) EXCEPT !.raised = l.raised]]
             /\ pc' = [pc EXCEPT ![p] = IF l.raised = "" THEN "load_metadata" ELSE "idle"]
    /\ UNCHANGED <<normalize, memo, archive, files, session, workload>>

\* ParquetStore.load, second element: load_metadata, and the return of the pair
FinishLoad(p) ==
    /\ pc[p] = "load_metadata"
    /\ LET c == call[p]
           l == load_metadata(files, c.query_string)
       IN  call' = [call EXCEPT ![p] =
               [c EXCEPT !.metadata = l.value,
                         !.raised   = l.raised,
                         !.returned = IF l.raised = ""
                                      THEN <<<<c.results[1], l.value[1]>>>> ELSE <<>>]]
    /\ pc' = [pc EXCEPT ![p] = "idle"]
    /\ UNCHANGED <<normalize, memo, archive, files, session, workload>>

----------------------------------------------------------------------------
(* Database *)

\* variants of the condition: the inner negation lost, force ignored, cache ignored
use_cache_never(query, force, cache) == exists(files, query) /\ ~(force \/ cache)

use_cache_ignoring_force(query, force, cache) == exists(files, query) /\ cache

use_cache_ignoring_cache(query, force, cache) == exists(files, query) /\ ~force

\* the condition of query's if statement: serve the call from the cache
use_cache(query, force, cache) == exists(files, query) /\ ~(force \/ ~cache)

\* the metadata mapping query builds after an execution started at t0 and ended at t1
query_metadata(t0, t1) ==
    [k \in {"db_name", "cachesql", "username", "executed_at", "duration"} |->
        CASE k = "db_name"     -> Str("dbtest")
          [] k = "cachesql"    -> Str("__version__")
          [] k = "username"    -> Str("unknown")
          [] k = "executed_at" -> Str(t0)
          [] k = "duration"    -> Num(t1 - t0)]

\* cached is what self.cache.exists(query) answered when the call began
QueryFrame(q, force, cache, results, metadata, executed) ==
    [Frame("query", q, results, metadata) EXCEPT
        !.force = force, !.cache = cache, !.cached = exists(files, q),
        !.executed = executed]

\* variant: a call served from the cache leaves the session as it was
QueryCached_session_kept(p) ==
    /\ pc[p] = "idle"
    /\ \E q \in workload, force \in BOOLEAN, cache \in BOOLEAN :
         /\ use_cache(q, force, cache)
         /\ LET l == load(files, q)
            IN  call' = [call EXCEPT ![p] =
                    [QueryFrame(q, force, cache, <<l.value[1][1]>>,
                                <<l.value[1][2]>>, 0) EXCEPT
                        !.returned = <<l.value[1][1]>>]]
    /\ UNCHANGED <<normalize, memo, archive, files, session, workload, pc>>

\* Database.query, the branch that loads from the cache
QueryCached(p) ==
    /\ pc[p] = "idle"
    /\ \E q \in workload, force \in BOOLEAN, cache \in BOOLEAN :
         /\ use_cache(q, force, cache)
         /\ LET l == load(files, q)
            IN  IF l.raised # ""
                THEN /\ call' = [call EXCEPT ![p] =
                            [QueryFrame(q, force, cache, <<>>, <<>>, 0) EXCEPT
                                !.raised = l.raised]]
                     /\ session' = session
                ELSE /\ call' = [call EXCEPT ![p] =
                            [QueryFrame(q, force, cache, <<l.value[1][1]>>,
                                        <<l.value[1][2]>>, 0) EXCEPT
                                !.returned = <<l.value[1][1]>>]]
                     /\ session' = session \cup {q}
    /\ UNCHANGED <<normalize, memo, archive, files, workload, pc>>

\* variant: the query is added to the session before it is executed
QueryFails_session_added(p) ==
    /\ pc[p] = "idle"
    /\ \E q \in workload, force \in BOOLEAN, cache \in BOOLEAN :
         /\ ~use_cache(q, force, cache)
         /\ call' = [call EXCEPT ![p] =
                [QueryFrame(q, force, cache, <<>>, <<>>, 1) EXCEPT
                    !.raised = "DatabaseError"]]
         /\ session' = session \cup {q}
    /\ UNCHANGED <<normalize, memo, archive, files, workload, pc>>

\* Database.query, the else branch when _query raises: the exception leaves query
QueryFails(p) ==
    /\ pc[p] = "idle"
    /\ \E q \in workload, force \in BOOLEAN, cache \in BOOLEAN :
         /\ ~use_cache(q, force, cache)
         /\ call' = [call EXCEPT ![p] =
                [QueryFrame(q, force, cache, <<>>, <<>>, 1) EXCEPT
                    !.raised = "DatabaseError"]]
    /\ UNCHANGED <<normalize, memo, archive, files, session, workload, pc>>

\* Database.query, the else branch with cache=False: execute, add to the session, return
QueryBypass(p) ==
    /\ pc[p] = "idle"
    /\ \E q \in workload, force \in BOOLEAN, results \in Results :
         /\ ~use_cache(q, force, FALSE)
         /\ call' = [call EXCEPT ![p] =
                [QueryFrame(q, force, FALSE, <<results>>, <<>>, 1) EXCEPT
                    !.returned = <<results>>]]
         /\ session' = session \cup {q}
    /\ UNCHANGED <<normalize, memo, archive, files, workload, pc>>

\* Database.query, the else branch with cache=True: execute, build the metadata and
\* enter cache.dump, whose first statement writes the results
QueryExecute(p) ==
    /\ pc[p] = "idle"
    /\ \E q \in workload, force \in BOOLEAN, results \in Results, t0 \in Times :
       \E t1 \in t0..MaxTime :
         /\ ~use_cache(q, force, TRUE)
         /\ LET d == dump_results(files, q, results)
            IN  /\ files' = d.files
                /\ call' = [call EXCEPT ![p] =
                       [QueryFrame(q, force, TRUE, <<results>>,
                                   <<query_metadata(t0, t1)>>, 1) EXCEPT
                           !.raised = d.raised]]
                /\ pc' = [pc EXCEPT ![p] = IF d.raised = "" THEN "dump_metadata" ELSE "idle"]
    /\ UNCHANGED <<normalize, memo, archive, session, workload>>


\* Database.export_session: cache.export(filename, queries=self.session), the set
\* being iterated in some order
ExportSession(p) ==
    /\ pc[p] = "idle"
    /\ \E queries \in Orders(session), order \in glob_json(files) :
         LET e == export(files, <<queries>>, order)
         IN  /\ archive' = <<e.archive>>
             /\ call' = [call EXCEPT ![p] =
                    [Frame("export_session", <<>>, <<>>, <<>>) EXCEPT
                        !.queries = <<queries>>, !.raised = e.raised]]
    /\ UNCHANGED <<normalize, memo, files, session, workload, pc>>

----------------------------------------------------------------------------

Step(p) ==
    \/ DumpResults(p)
    \/ DumpMetadata(p)
    \/ Dump(p)
    \/ FinishDump(p)
    \/ QueryCached(p)
    \/ QueryFails(p)
    \/ QueryBypass(p)
    \/ QueryExecute(p)

\* one caller at a time: the single-process use the store is written for
Next == Step(1)

Spec == Init /\ [][Next]_vars

\* the store's own operations, on every pair of Workloads
StoreNext == DumpResults(1) \/ DumpMetadata(1) \/ Dump(1) \/ FinishDump(1)

StoreSpec == StoreInit /\ [][StoreNext]_vars

\* the store's reads next to its writes
LoadNext == StoreNext \/ LoadMetadata(1) \/ LoadResults(1) \/ List(1)

LoadSpec == StoreInit /\ [][LoadNext]_vars

\* a store whose contents are exported and imported
ArchiveInit ==
    /\ normalize \in BOOLEAN
    /\ memo = lru_cache
    /\ files = <<>>
    /\ archive = <<>>
    /\ session = {}
    /\ workload \in {{qa, qb}, {qb, qd}}
    /\ pc = [p \in Procs |-> "idle"]
    /\ call = [p \in Procs |-> NoCall]

ArchiveNext ==
    \/ DumpResults(1)
    \/ DumpMetadata(1)
    \/ Dump(1)
    \/ FinishDump(1)
    \/ Export(1)
    \/ ImportCache(1)

ArchiveSpec == ArchiveInit /\ [][ArchiveNext]_vars

\* a store that is written to by dump only, and exported and imported
EntriesNext ==
    \/ Dump(1)
    \/ FinishDump(1)
    \/ Export(1)
    \/ ImportCache(1)

EntriesSpec == ArchiveInit /\ [][EntriesNext]_vars

\* a Database whose session is exported, on a store that others write to as well
SessionNext ==
    \/ Dump(1)
    \/ FinishDump(1)
    \/ QueryExecute(1)
    \/ QueryBypass(1)
    \/ ExportSession(1)

SessionSpec == Init /\ [][SessionNext]_vars

\* the serializers on their own and under a store, on one query
SerializerInit ==
    /\ normalize \in BOOLEAN
    /\ memo = lru_cache
    /\ files = <<>>
    /\ archive = <<>>
    /\ session = {}
    /\ workload = {qb}
    /\ pc = [p \in Procs |-> "idle"]
    /\ call = [p \in Procs |-> NoCall]

SerializerNext ==
    \/ SerializerDump(1)
    \/ SerializerLoad(1)
    \/ FileStoreDumpResults(1)
    \/ FileStoreLoadResults(1)
    \/ DumpResults(1)
    \/ LoadResults(1)

SerializerSpec == SerializerInit /\ [][SerializerNext]_vars

\* the directory fs after dump(q, R2, M1) for each query q of S
RECURSIVE dumped(_, _)
dumped(fs, S) ==
    IF S = {} THEN fs
    ELSE LET q == CHOOSE x \in S : TRUE
         IN  dumped(dump_metadata(dump_results(fs, q, R2).files, q, M1).files, S \ {q})

\* a writer (caller 1) and a reader (caller 2) in separate processes, on a store that
\* holds the entries of some of the workload's queries
ReaderInit ==
    /\ normalize \in BOOLEAN
    /\ memo = lru_cache
    /\ workload \in {{qa, qc}, {qa, qb}}
    /\ files \in {dumped(<<>>, S) : S \in SUBSET workload}
    /\ archive = <<>>
    /\ session = {}
    /\ pc = [p \in Procs |-> "idle"]
    /\ call = [p \in Procs |-> NoCall]

\* the writer dumps under one query, time and again
WriterDump ==
    /\ Dump(1)
    /\ call[1].op # "none" => call'[1].query_string = call[1].query_string

\* the reader's calls are made while the writer is at work, on queries whose key is not
\* the key the writer dumps under
OtherKey ==
    /\ call[1].op # "none"
    /\ hash_query(call'[2].query_string, normalize)
          # hash_query(call[1].query_string, normalize)

ReaderNext ==
    \/ WriterDump
    \/ FinishDump(1)
    \/ Exists(2) /\ OtherKey
    \/ FinishExists(2) /\ OtherKey
    \/ Load(2) /\ OtherKey
    \/ FinishLoad(2) /\ OtherKey

ReaderSpec == ReaderInit /\ [][ReaderNext]_vars

\* every operation of the store and of the Database, by one caller on one query
LifecycleInit ==
    /\ normalize \in BOOLEAN
    /\ memo = lru_cache
    /\ files = <<>>
    /\ archive = <<>>
    /\ session = {}
    /\ workload = {qb}
    /\ pc = [p \in Procs |-> "idle"]
    /\ call = [p \in Procs |-> NoCall]

LifecycleNext ==
    \/ Step(1)
    \/ Exists(1)
    \/ FinishExists(1)
    \/ Load(1)
    \/ FinishLoad(1)
    \/ LoadMetadata(1)
    \/ LoadResults(1)
    \/ List(1)
    \/ Export(1)
    \/ ImportCache(1)
    \/ ExportSession(1)

LifecycleSpec == LifecycleInit /\ [][LifecycleNext]_vars

\* two writers in separate processes, each dumping its own executions
WritersNext == \E p \in Procs : DumpOwn(p) \/ FinishDump(p)

WritersSpec == Init /\ [][WritersNext]_vars


\* callers in separate processes, interleaved at the file writes
ConcNext == \E p \in Procs : Step(p)

ConcSpec == Init /\ [][ConcNext]_vars


----------------------------------------------------------------------------
(* Vocabulary of the properties *)

\* the artifacts (file extensions) present in the directory fs under q's derived key
Artifacts(fs, q) ==
    {f[2] : f \in {g \in DOMAIN fs : g[1] = hash_query(q, normalize)}}

\* caller p is idle and its frame is that of a finished call
Finished(p) == pc[p] = "idle" /\ call[p].op # "none"

\* this step starts a call of caller p
Starts(p) == pc[p] = "idle" /\ call'[p] # call[p]

\* this step starts a call query(q, force, cache) of caller p
StartsQuery(p, q, force, cache) ==
    /\ Starts(p)
    /\ call'[p].op = "query"
    /\ call'[p].query_string = q
    /\ call'[p].force = force
    /\ call'[p].cache = cache

\* this step ends a call of caller p without an exception
Returns(p) ==
    /\ pc'[p] = "idle"
    /\ pc[p] # "idle" \/ call'[p] # call[p]
    /\ call'[p].raised = ""

----------------------------------------------------------------------------
(* C1 *)

\* C1, first call: a query with default flags on a text that is not cached executes
\* _query once, and when it returns the entry is stored.
C1_FirstCallExecutesAndStores ==
    \A q \in workload :
        /\ (~exists(files, q) /\ StartsQuery(1, q, FALSE, TRUE)) => call'[1].executed = 1
        /\ ( /\ pc[1] = "dump_metadata"
             /\ call[1].op = "query"
             /\ call[1].query_string = q
             /\ Returns(1) )
           => /\ exists(files', q)
              /\ call'[1].executed = 1
              /\ call'[1].returned = call[1].results

\* C1, second call: right after such a call returned, the same query with default
\* flags is served from the cache: it does not execute and returns an equal result.
C1_SecondCallServedFromCache ==
    \A q \in workload :
        ( /\ Finished(1)
          /\ call[1].op = "query"
          /\ call[1].query_string = q
          /\ ~call[1].force /\ call[1].cache
          /\ call[1].raised = ""
          /\ call[1].executed = 1
          /\ StartsQuery(1, q, FALSE, TRUE) )
        => /\ pc'[1] = "idle"
           /\ call'[1].raised = ""
           /\ call'[1].executed = 0
           /\ call'[1].returned = call[1].returned
           /\ call[1].executed + call'[1].executed = 1

\* C1: with default flags, query(q) twice in a row on a store where q was not cached
\* executes _query exactly once: the first call executes and stores the entry, the
\* second is served from the cache, and both return equal results.
C1_MissThenHit ==
    [][C1_FirstCallExecutesAndStores /\ C1_SecondCallServedFromCache]_vars

\* a call with default flags was served from the cache, from an entry that a query of
\* this session stored
C1_Witness ==
    /\ Finished(1)
    /\ call[1].op = "query"
    /\ ~call[1].force /\ call[1].cache
    /\ call[1].executed = 0
    /\ call[1].raised = ""
    /\ call[1].returned = <<R2>>
    /\ "db_name" \in DOMAIN call[1].metadata[1]
    /\ session = {call[1].query_string}

----------------------------------------------------------------------------
(* C2 *)

\* C2: on a fresh store exists(q) is false for every q; a dump(q, R, M) that succeeds
\* makes exists(q) true and load(q) return (R, M'), where M' has every key of M with
\* M's value, except that cache_file and query_string hold the injected values.
C2_StepOfDump ==
    /\ files = <<>> => \A q \in workload : ~exists(files, q)
    /\ ( /\ pc[1] = "dump_metadata"
         /\ call[1].op = "dump"
         /\ Returns(1) )
       => LET q == call[1].query_string
              R == call[1].results[1]
              M == call[1].metadata[1]
              l == load(files', q)
          IN  /\ exists(files', q)
              /\ l.raised = ""
              /\ l.value[1][1] = R
              /\ LET Mp == l.value[1][2]
                 IN  /\ DOMAIN Mp = DOMAIN M \cup {"cache_file", "query_string"}
                     /\ \A k \in DOMAIN M \ {"cache_file", "query_string"} : Mp[k] = M[k]
                     /\ Mp["cache_file"] = Str(<<hash_query(q, normalize), ".parquet">>)
                     /\ Mp["query_string"] =
                            Str(IF normalize THEN normalize_query(q) ELSE q)

C2_MissThenHit == [][C2_StepOfDump]_vars

\* a dump has succeeded on a key that had no artifact when the dump began its second write
C2_Witness ==
    /\ Finished(1)
    /\ call[1].op = "dump"
    /\ call[1].raised = ""
    /\ call[1].results = <<R1>>
    /\ exists(files, call[1].query_string)
    /\ Cardinality(DOMAIN files) = 2


----------------------------------------------------------------------------
(* C3 *)

\* C3: in every reachable state and for every query q, exists(q) is true exactly when
\* both the metadata artifact and the payload artifact of q's derived key are present;
\* it is false while only one of them is (after dump_results alone, after
\* dump_metadata alone, between the two writes of dump).
C3_ExistsIffBothArtifacts ==
    \A q \in workload :
        /\ exists(files, q) <=> Artifacts(files, q) = {".json", ".parquet"}
        /\ Cardinality(Artifacts(files, q)) = 1 => ~exists(files, q)

\* a dump stands between its two writes with only the payload artifact present
C3_Witness ==
    /\ pc[1] = "dump_metadata"
    /\ call[1].op = "dump"
    /\ Artifacts(files, call[1].query_string) = {".parquet"}
    /\ ~exists(files, call[1].query_string)

----------------------------------------------------------------------------
(* C4 *)

\* the metadata artifacts of the directory fs, with their contents
MetadataFiles(fs) == [f \in {g \in DOMAIN fs : g[2] = ".json"} |-> fs[f]]

\* C4, as a property of each step: dump writes the results first, with no metadata
\* artifact touched by that statement; when it raises, the call is over (dump_metadata
\* is not called) and no metadata artifact has been created or changed.
C4_StepOfDump ==
    (Starts(1) /\ call'[1].op \in {"dump", "query"} /\ call'[1].cache)
    => LET q == call'[1].query_string
       IN  /\ MetadataFiles(files') = MetadataFiles(files)
           /\ call'[1].raised = "ArrowInvalid" =>
                 /\ pc'[1] = "idle"
                 /\ files' = files
           /\ pc'[1] = "dump_metadata" =>
                 /\ call'[1].raised = ""
                 /\ ".parquet" \in Artifacts(files', q)
                 /\ load_results(files', q) = Returned(call'[1].results[1])

\* C4: dump(q, R, M) calls dump_results before dump_metadata, and if dump_results
\* fails dump_metadata is not called: no metadata artifact is created or updated.
C4_NoOrphanMetadata == [][C4_StepOfDump]_vars

\* a dump has failed at dump_results and q's key has no metadata artifact
C4_Witness ==
    /\ Finished(1)
    /\ call[1].op = "dump"
    /\ call[1].raised = "ArrowInvalid"
    /\ call[1].metadata = <<M1>>
    /\ Artifacts(files, call[1].query_string) = {}

----------------------------------------------------------------------------
(* C5 *)

\* C5: after a dump(q, R, M) in which the payload was written and the metadata write
\* failed, exists(q) is false, whatever artifacts q's key had before the call.
C5_FailedDumpNotVisible ==
    ( /\ Finished(1)
      /\ call[1].op = "dump"
      /\ call[1].raised = "TypeError" )
    => ~exists(files, call[1].query_string)

----------------------------------------------------------------------------
(* C6 *)

\* this step belongs to a call query(q, force=True, cache=True) of caller 1
StepOfForcedQuery(q) ==
    \/ StartsQuery(1, q, TRUE, TRUE)
    \/ /\ pc[1] = "dump_metadata"
       /\ call[1].op = "query"
       /\ call[1].force
       /\ call[1].query_string = q

\* C6, as a property of each step: a forced query executes even when q is cached;
\* when it returns, q's entry is the fresh result with the fresh metadata; and no
\* step of the call makes a cached q uncached.
C6_StepOfForcedQuery ==
    \A q \in workload :
        /\ (exists(files, q) /\ StartsQuery(1, q, TRUE, TRUE)) => call'[1].executed = 1
        /\ ( /\ pc[1] = "dump_metadata"
             /\ call[1].op = "query"
             /\ call[1].force
             /\ call[1].query_string = q
             /\ Returns(1) )
           => LET l == load(files', q)
              IN  /\ l.raised = ""
                  /\ l.value[1][1] = call[1].results[1]
                  /\ l.value[1][2] = call'[1].metadata[1]
                  /\ l.value[1][2]["executed_at"] = call[1].metadata[1]["executed_at"]
                  /\ l.value[1][2]["duration"] = call[1].metadata[1]["duration"]
                  /\ call'[1].returned = call[1].results
        /\ (exists(files, q) /\ StepOfForcedQuery(q)) => exists(files', q)

\* C6: query(q, force=True) with cache=True executes even when q is cached, and
\* overwrites q's entry with the fresh result and metadata; the key stays present.
C6_ForcedRefresh == [][C6_StepOfForcedQuery]_vars

\* a forced query has replaced the payload of an entry that an earlier query stored,
\* and stands before its metadata write
C6_Witness ==
    /\ pc[1] = "dump_metadata"
    /\ call[1].op = "query"
    /\ call[1].force
    /\ call[1].executed = 1
    /\ exists(files, call[1].query_string)
    /\ "db_name" \in DOMAIN load(files, call[1].query_string).value[1][2]
    /\ call[1].query_string \in session

----------------------------------------------------------------------------
(* C7 *)

\* C7, as a property of each step: a query with cache=False executes whatever force
\* is and whether or not q is cached, is over in that step, leaves every file as it
\* was and returns what it executed.
C7_StepOfBypass ==
    \A q \in workload, force \in BOOLEAN :
        StartsQuery(1, q, force, FALSE)
        => /\ call'[1].executed = 1
           /\ files' = files
           /\ pc'[1] = "idle"
           /\ call'[1].raised = "" =>
                 /\ call'[1].returned = call'[1].results
                 /\ call'[1].returned # <<>>

\* C7: query(q, cache=False) executes on every call, for either value of force and
\* whether or not q is cached, and leaves the store unchanged.
C7_CacheBypass == [][C7_StepOfBypass]_vars

\* a bypassing query on a cached q returned a result other than the cached one,
\* which is still the entry of q
C7_Witness ==
    /\ Finished(1)
    /\ call[1].op = "query"
    /\ ~call[1].cache
    /\ call[1].executed = 1
    /\ call[1].returned = <<R1>>
    /\ exists(files, call[1].query_string)
    /\ load(files, call[1].query_string).value[1][1] = R2


----------------------------------------------------------------------------
(* Formatting of query texts, for C8 and C9 *)

\* every query text of at most n tokens
QueriesUpTo(n) == UNION {[1..k -> Alphabet] : k \in 0..n}

AllQueries == QueriesUpTo(MaxQueryLen)

WorkloadQueries == UNION Workloads

ReplaceAt(q, i, t) == [q EXCEPT ![i] = t]
InsertAt(q, i, t)  == SubSeq(q, 1, i - 1) \o <<t>> \o SubSeq(q, i, Len(q))
RemoveAt(q, i)     == SubSeq(q, 1, i - 1) \o SubSeq(q, i + 1, Len(q))

\* the texts one formatting change away from q: another kind of whitespace, more or
\* less whitespace where there is some or at an end, another keyword case, a trailing
\* comment added or dropped
FormatEdits(q) ==
    LET n == Len(q)
    IN  {ReplaceAt(q, i, w) : i \in {j \in 1..n : q[j] \in Whitespace}, w \in Whitespace}
        \cup {ReplaceAt(q, i, k) : i \in {j \in 1..n : q[j] \in Keywords}, k \in Keywords}
        \cup {InsertAt(q, i, w) :
                i \in {j \in 1..(n + 1) :
                         \/ j = 1
                         \/ j = n + 1
                         \/ q[j] \in Whitespace
                         \/ q[j - 1] \in Whitespace},
                w \in Whitespace}
        \cup {RemoveAt(q, i) :
                i \in {j \in 1..n :
                         /\ q[j] \in Whitespace
                         /\ \/ j = 1
                            \/ j = n
                            \/ q[j - 1] \in Whitespace
                            \/ q[j + 1] \in Whitespace}}
        \cup {q \o <<c>> : c \in Comments}
        \cup (IF n > 0 /\ q[n] \in Comments THEN {SubSeq(q, 1, n - 1)} ELSE {})

\* the texts that differ from q in the case of one identifier
IdentifierEdits(q) ==
    {ReplaceAt(q, i, x) : i \in {j \in 1..Len(q) : q[j] \in Identifiers},
                          x \in Identifiers} \ {q}

\* q without the whitespace and the comments that end it
RECURSIVE WithoutTrail(_)
WithoutTrail(q) ==
    IF q # <<>> /\ q[Len(q)] \in Whitespace \cup Comments
    THEN WithoutTrail(SubSeq(q, 1, Len(q) - 1))
    ELSE q

\* the tokens of q that are not whitespace, each with the keyword case folded and
\* with whether whitespace separates it from the token before it
RECURSIVE Words(_, _)
Words(q, spaced) ==
    IF q = <<>> THEN <<>>
    ELSE IF Head(q) \in Whitespace THEN Words(Tail(q), TRUE)
    ELSE <<[word   |-> IF Head(q) \in Keywords THEN "select" ELSE Head(q),
            spaced |-> spaced]>> \o Words(Tail(q), FALSE)

\* what is left of q when its formatting is disregarded
Reading(q) == Words(lstrip(WithoutTrail(q)), FALSE)

DiffersOnlyInFormat(q1, q2) == Reading(q1) = Reading(q2)

\* the same words but for the case of at least one identifier
DiffersInIdentifierCase(q1, q2) ==
    LET r1 == Reading(q1)
        r2 == Reading(q2)
    IN  /\ Len(r1) = Len(r2)
        /\ \A i \in 1..Len(r1) :
              /\ r1[i].spaced = r2[i].spaced
              /\ \/ r1[i].word = r2[i].word
                 \/ {r1[i].word, r2[i].word} \subseteq Identifiers
        /\ \E i \in 1..Len(r1) : r1[i].word # r2[i].word

\* both texts are within normalize_query's size guard
WithinGuard(q1, q2) == Len(q1) <= max_length /\ Len(q2) <= max_length

----------------------------------------------------------------------------
(* C8 *)

\* one formatting change keeps the key when both texts are within the size guard
\* (when sized is FALSE: whatever their lengths), and a change of identifier case
\* changes it
C8_KeysOfEdits(sized) ==
    \A q \in AllQueries :
        /\ \A e \in FormatEdits(q) :
              (sized => WithinGuard(q, e)) => hash_query(q, TRUE) = hash_query(e, TRUE)
        /\ \A e \in IdentifierEdits(q) : hash_query(q, TRUE) # hash_query(e, TRUE)

C8_KeysOfEditsWithinGuard == C8_KeysOfEdits(TRUE)

C8_KeysOfEditsAnyLength == C8_KeysOfEdits(FALSE)

\* in a normalizing store, two texts of the workload that differ only in formatting
\* share their entry, and after a dump of one the other exists and loads that entry;
\* two that differ in identifier case have different artifacts
C8_SharedEntry(sized) ==
    normalize =>
    \A q1 \in workload, q2 \in workload :
        /\ (DiffersOnlyInFormat(q1, q2) /\ (sized => WithinGuard(q1, q2)))
           => /\ load(files, q2) = load(files, q1)
              /\ ( /\ Finished(1)
                   /\ call[1].op = "dump"
                   /\ call[1].raised = ""
                   /\ call[1].query_string = q1 )
                 => /\ exists(files, q2)
                    /\ load(files, q2) =
                          Returned(<<call[1].results[1], call[1].metadata[1]>>)
        /\ DiffersInIdentifierCase(q1, q2)
           => /\ get_cache_filepath(q1) # get_cache_filepath(q2)
              /\ get_metadata_filepath(q1) # get_metadata_filepath(q2)
              /\ Artifacts(files, q1) = {} => ~exists(files, q1)

----------------------------------------------------------------------------
(* C9 *)

\* this step belongs to a call of caller 1 on the query q
StepOfCallOn(q) ==
    \/ Starts(1) /\ call'[1].query_string = q
    \/ pc[1] # "idle" /\ call[1].query_string = q

\* without normalization the key is one-to-one on the raw text
C9_RawKeysOneToOne ==
    LET Q == AllQueries \cup WorkloadQueries
    IN  Cardinality({hash_query(q, FALSE) : q \in Q}) = Cardinality(Q)

\* in a store that does not normalize, two texts of the workload have different artifacts
C9_RawKeysDistinct ==
    /\ C9_RawKeysOneToOne
    /\ ~normalize =>
          \A q1 \in workload : \A q2 \in workload \ {q1} :
              /\ get_cache_filepath(q1) # get_cache_filepath(q2)
              /\ get_metadata_filepath(q1) # get_metadata_filepath(q2)

\* without normalization a call on q1 changes no artifact of another text q2
C9_StepKeepsOtherTexts ==
    ~normalize =>
    \A q1 \in workload : \A q2 \in workload \ {q1} :
        StepOfCallOn(q1) =>
            /\ Artifacts(files', q2) = Artifacts(files, q2)
            /\ exists(files', q2) = exists(files, q2)
            /\ load(files', q2) = load(files, q2)

\* C9: with normalization disabled the key is a function of the raw text only: texts
\* that are not literally equal have different keys, so dump(q1, ...) never makes
\* exists(q2) true for q2 # q1, even when q1 and q2 would normalize identically.
C9_RawTextKeys == []C9_RawKeysDistinct /\ [][C9_StepKeepsOtherTexts]_vars

\* "select t" is cached and "SELECT<tab>t--c", which normalizes to the same text, is not
C9_Witness ==
    /\ ~normalize
    /\ workload = {qa, qb}
    /\ normalize_query(qa) = normalize_query(qb)
    /\ Finished(1)
    /\ call[1].op = "dump"
    /\ call[1].raised = ""
    /\ call[1].query_string = qa
    /\ exists(files, qa)
    /\ ~exists(files, qb)

----------------------------------------------------------------------------
(* C10 *)

\* C10: load(q) returns the (results, metadata) pair exactly when both artifacts of q
\* are present, i.e. when exists(q); otherwise it raises and returns nothing.  The
\* payload is loaded first: without the payload artifact the error is that of
\* load_results, also when the metadata artifact is absent too.
C10_LoadBothOrFail ==
    \A q \in workload :
        LET l == load(files, q)
            A == Artifacts(files, q)
        IN  /\ l.raised = "" <=> exists(files, q)
            /\ A = {".json", ".parquet"} =>
                  l = Returned(<<read_parquet(files[get_cache_filepath(q)]),
                                 json_loads(files[get_metadata_filepath(q)])>>)
            /\ A # {".json", ".parquet"} => l.value = <<>>
            /\ ".parquet" \notin A => l.raised = NoResults
            /\ A = {".parquet"} => l.raised = NoMetadata

\* q has a metadata artifact and no payload: load raises the error of load_results
C10_Witness ==
    \E q \in workload :
        /\ Artifacts(files, q) = {".json"}
        /\ load(files, q) = Raised(NoResults)
        /\ load_metadata(files, q).raised = ""

----------------------------------------------------------------------------
(* C11 *)

\* this step is a call op(q) of caller 1
StepOfCall(op, q) ==
    /\ Starts(1)
    /\ call'[1].op = op
    /\ call'[1].query_string = q

\* C11: a call load_metadata(q) raises the not-found ValueError when q's metadata file
\* is absent, and a call load_results(q) raises it when q's payload file is absent,
\* whether or not the other file of the key is there; when the file is present the
\* call returns its content; neither call changes the directory.
C11_StepOfLoad ==
    \A q \in workload :
        /\ StepOfCall("load_metadata", q) =>
              /\ files' = files
              /\ IF path_exists(files, get_metadata_filepath(q))
                 THEN /\ call'[1].raised = ""
                      /\ call'[1].returned = <<json_loads(files[get_metadata_filepath(q)])>>
                 ELSE /\ call'[1].raised = NoMetadata
                      /\ call'[1].returned = <<>>
        /\ StepOfCall("load_results", q) =>
              /\ files' = files
              /\ IF path_exists(files, get_cache_filepath(q))
                 THEN /\ call'[1].raised = ""
                      /\ call'[1].returned = <<read_parquet(files[get_cache_filepath(q)])>>
                 ELSE /\ call'[1].raised = NoResults
                      /\ call'[1].returned = <<>>

C11_LoadPartNotFound == [][C11_StepOfLoad]_vars

\* load_metadata has raised on a key whose payload file is present
C11_Witness ==
    /\ Finished(1)
    /\ call[1].op = "load_metadata"
    /\ call[1].raised = NoMetadata
    /\ path_exists(files, get_cache_filepath(call[1].query_string))
    /\ ~path_exists(files, get_metadata_filepath(call[1].query_string))

----------------------------------------------------------------------------
(* C12 *)

\* the mapping after is the mapping M with cache_file set to the base name of q's
\* payload file and query_string set to the query text in the form the key is derived
\* from, every other key of M kept with its value; and it is what load_metadata(q) loads
InjectedInto(fs, q, M, after) ==
    /\ DOMAIN after = DOMAIN M \cup {"cache_file", "query_string"}
    /\ after["cache_file"] = Str(get_cache_filepath(q))
    /\ after["query_string"] = Str(IF normalize THEN normalize_query(q) ELSE q)
    /\ \A k \in DOMAIN M \ {"cache_file", "query_string"} : after[k] = M[k]
    /\ load_metadata(fs, q) = Returned(after)

\* C12: a dump_metadata(q, M) that succeeds, called on its own or as the second
\* statement of dump, leaves the caller's mapping equal to M with the two derived
\* fields set (replacing the caller's values for them) and every other key kept, and
\* load_metadata(q) then returns that mapping.
C12_StepOfDumpMetadata ==
    /\ ( /\ pc[1] = "dump_metadata"
         /\ Returns(1) )
       => InjectedInto(files', call[1].query_string, call[1].metadata[1],
                       call'[1].metadata[1])
    /\ \A q \in workload :
         ( /\ StepOfCall("dump_metadata", q)
           /\ call'[1].raised = "" )
         => \E M \in Metadatas : InjectedInto(files', q, M, call'[1].metadata[1])

C12_DerivedFieldsInjected == [][C12_StepOfDumpMetadata]_vars

\* dump_metadata has replaced the cache_file and query_string the caller supplied
C12_Witness ==
    /\ Finished(1)
    /\ call[1].op = "dump_metadata"
    /\ call[1].raised = ""
    /\ call[1].metadata[1]["cache_file"] # M1["cache_file"]
    /\ call[1].metadata[1]["query_string"] # M1["query_string"]
    /\ call[1].metadata[1]["duration"] = M1["duration"]
    /\ load_metadata(files, call[1].query_string) = Returned(call[1].metadata[1])

----------------------------------------------------------------------------
(* C13 *)

\* the query text held in the query_string field of the metadata file f of fs
StoredQuery(fs, f) == json_loads(fs[f])["query_string"][2]

\* C13: every metadata file of the store holds, as its query field, the text of a
\* query of the workload in the form its key is derived from (normalized when the
\* store normalizes, as written when it does not), and deriving the key from that
\* field with the store's flag gives the names of the very files of the entry.
C13_QueryFieldRederivesKey ==
    \A f \in DOMAIN files :
        f[2] = ".json" =>
            /\ \E q \in workload :
                 /\ get_metadata_filepath(q) = f
                 /\ StoredQuery(files, f) = IF normalize THEN normalize_query(q) ELSE q
            /\ get_metadata_filepath(StoredQuery(files, f)) = f
            /\ Str(get_cache_filepath(StoredQuery(files, f))) = json_loads(files[f])["cache_file"]

\* a store that normalizes holds an entry whose stored text differs from the text it
\* was dumped under
C13_Witness ==
    \E f \in DOMAIN files : \E q \in workload :
        /\ normalize
        /\ f = get_metadata_filepath(q)
        /\ exists(files, q)
        /\ StoredQuery(files, f) # q

----------------------------------------------------------------------------
(* The second store of the export / import claims *)

\* the directory of a second store of the same configuration, constructed on a new
\* (empty) directory, after its import_cache of the zip file zipfile
ImportedFresh(zipfile) == import_cache(<<>>, zipfile).files

\* the queries of the workload that have an entry in the directory fs
Cached(fs) == {q \in workload : exists(fs, q)}

\* the keys of a set of queries
Keys(Q) == {hash_query(q, normalize) : q \in Q}

\* this step is a call export(path, queries) whose queries enumerate the set K
StepOfExport(K) ==
    /\ Starts(1)
    /\ call'[1].op = "export"
    /\ call'[1].queries # <<>>
    /\ Range(call'[1].queries[1]) = K

----------------------------------------------------------------------------
(* C14 *)

\* a call export(path, queries=K), K being queries with entries in a store S1 that holds
\* N entries, K having k < N keys, followed by import_cache(path) into a fresh store S2:
\* S2.list() has k rows, S2 holds K's metadata (and payloads) as S1 does and none of
\* the other entries of S1, and S1 is left as it was, still listing N rows
C14_ExportOfSubset(K) ==
    ( /\ StepOfExport(K)
      /\ K \subseteq Cached(files)
      /\ Keys(K) # Keys(Cached(files)) )
    => LET S2 == ImportedFresh(archive')
       IN  /\ call'[1].raised = ""
           /\ \A o \in glob_json(S2) : Len(list(S2, o).rows) = Cardinality(Keys(K))
           /\ \A q \in K : load(S2, q) = load(files, q)
           /\ \A q \in Cached(files) :
                hash_query(q, normalize) \notin Keys(K) => Artifacts(S2, q) = {}
           /\ files' = files
           /\ \A o \in glob_json(files') :
                Len(list(files', o).rows) >= Cardinality(Keys(Cached(files)))

\* C14: export of a subset K of the N cached queries, with k < N keys, and import into
\* a fresh store give that store exactly K's entries; S1 keeps its N.
C14_StepOfAnySubset == \A K \in SUBSET workload : C14_ExportOfSubset(K)

C14_SubsetFidelity == [][C14_StepOfAnySubset]_vars

\* the same for the subsets that name at least one query
C14_StepOfNonEmptySubset == \A K \in (SUBSET workload) \ {{}} : C14_ExportOfSubset(K)

C14_NonEmptySubsetFidelity == [][C14_StepOfNonEmptySubset]_vars

\* one of two entries has been exported: the archive holds that entry's two files
C14_Witness ==
    /\ Finished(1)
    /\ call[1].op = "export"
    /\ call[1].raised = ""
    /\ call[1].queries # <<>>
    /\ Len(call[1].queries[1]) = 1
    /\ Cardinality(Keys(Cached(files))) = 2
    /\ Cardinality(DOMAIN ImportedFresh(archive)) = 2

----------------------------------------------------------------------------
(* C15 *)

\* every metadata file of the directory fs has its payload file beside it
EveryListedHasPayload(fs) ==
    \A f \in DOMAIN fs : f[2] = ".json" => <<f[1], ".parquet">> \in DOMAIN fs

\* this step is a call export(path) with queries omitted
StepOfExportAll ==
    /\ Starts(1)
    /\ call'[1].op = "export"
    /\ call'[1].queries = <<>>

\* export(path) succeeds and a fresh store that imports the archive then holds every
\* entry of this store and lists what this store lists, file by file
AllEntriesExported ==
    LET S2 == ImportedFresh(archive')
    IN  /\ call'[1].raised = ""
        /\ \A q \in Cached(files) : load(S2, q) = load(files, q)
        /\ glob_json(S2) = glob_json(files)
        /\ \A o \in glob_json(files) : list(S2, o) = list(files, o)

\* C15 as stated: export(path) with queries omitted packs every entry of the store,
\* whatever the store holds, and a fresh store of the same configuration that imports
\* the archive lists what the source store lists.
C15_StepOfExportAll == StepOfExportAll => AllEntriesExported

C15_ExportAllFidelity == [][C15_StepOfExportAll]_vars

\* C15 amended: the same, for a store in which every metadata file has its payload file.
C15_StepOfExportAllOfEntries ==
    (StepOfExportAll /\ EveryListedHasPayload(files)) => AllEntriesExported

C15_ExportAllOfEntriesFidelity == [][C15_StepOfExportAllOfEntries]_vars

\* a store that normalizes has exported, with queries omitted, an entry that it
\* re-derived from a stored text other than the text the entry was dumped under
C15_Witness ==
    /\ Finished(1)
    /\ call[1].op = "export"
    /\ call[1].queries = <<>>
    /\ call[1].raised = ""
    /\ normalize
    /\ EveryListedHasPayload(files)
    /\ \E q \in Cached(files) :
         /\ StoredQuery(files, get_metadata_filepath(q)) # q
         /\ load(ImportedFresh(archive), q) = load(files, q)

----------------------------------------------------------------------------
(* C16 *)

\* the names of the payload and metadata files of the queries of Q
FilesOf(Q) == {get_cache_filepath(q) : q \in Q} \cup {get_metadata_filepath(q) : q \in Q}

\* the query text as dump_metadata stores it
Stored(q) == IF normalize THEN normalize_query(q) ELSE q

\* C16: export_session(f), called in a session whose queries all have their entry in
\* the store (the session without any query among them), writes an archive whose
\* members are the payload and metadata files of the session's queries and no other
\* file of the store; a fresh store that imports it lists the session's queries only.
C16_StepOfExportSession ==
    ( /\ Starts(1)
      /\ call'[1].op = "export_session"
      /\ session \subseteq Cached(files) )
    => /\ call'[1].raised = ""
       /\ archive' # <<>>
       /\ DOMAIN archive'[1] = FilesOf(session)
       /\ \A f \in FilesOf(session) : archive'[1][f] = files[f]
       /\ LET S2 == ImportedFresh(archive')
          IN  \A o \in glob_json(S2) :
                Range(column(list(S2, o), "query_string")) = {Str(Stored(q)) : q \in session}

C16_SessionArchive == [][C16_StepOfExportSession]_vars

----------------------------------------------------------------------------
(* C17 *)

\* the ValueError that load_results and load_metadata raise, with either message
NotFoundOfLoad == {NoMetadata, NoResults}

\* a call export(path, queries=K): the store's files are left as they were, every
\* member of the archive is a file the store held at the call, with its content; the
\* call fails with one of the exceptions failures if a query of K lacks an entry, and
\* otherwise succeeds and packs both files of each query of K
ExportOfQueries(K, failures) ==
    StepOfExport(K)
    => /\ files' = files
       /\ archive' # <<>>
       /\ \A f \in DOMAIN archive'[1] : f \in DOMAIN files /\ archive'[1][f] = files[f]
       /\ (\E q \in K : ~exists(files, q)) => call'[1].raised \in failures
       /\ (K # {} /\ \A q \in K : exists(files, q))
          => /\ call'[1].raised = ""
             /\ DOMAIN archive'[1] = FilesOf(K)

\* C17 as stated: a requested query without entry makes export fail with the
\* not-found error of load_results / load_metadata.
C17_StepOfExportNotFound ==
    \A K \in SUBSET workload : ExportOfQueries(K, NotFoundOfLoad)

C17_StepOfExportFileNotFound ==
    \A K \in SUBSET workload : ExportOfQueries(K, {"FileNotFoundError"})

----------------------------------------------------------------------------
(* C18 *)

\* C18: import_cache(path) of an existing archive leaves in the store every member of
\* the archive under its name, with the member's content whatever the store held under
\* that name, and every other file of the store as it was; load(q) then returns the
\* archive's entry for a key whose two files are in the archive and what it returned
\* before for a key that has no file in the archive.  The archive is not changed.
C18_StepOfImport ==
    ( /\ Starts(1)
      /\ call'[1].op = "import_cache"
      /\ archive # <<>> )
    => LET myzip == archive[1]
       IN  /\ call'[1].raised = ""
           /\ archive' = archive
           /\ DOMAIN files' = DOMAIN files \cup DOMAIN myzip
           /\ \A f \in DOMAIN myzip : files'[f] = myzip[f]
           /\ \A f \in DOMAIN files \ DOMAIN myzip : files'[f] = files[f]
           /\ \A q \in workload :
                /\ FilesOf({q}) \subseteq DOMAIN myzip => load(files', q) = load(myzip, q)
                /\ FilesOf({q}) \cap DOMAIN myzip = {} => load(files', q) = load(files, q)

C18_ImportOverwrites == [][C18_StepOfImport]_vars

\* an import has left the archive's entry in a store that also holds files the
\* archive does not have
C18_Witness ==
    /\ Finished(1)
    /\ call[1].op = "import_cache"
    /\ call[1].raised = ""
    /\ \E q \in workload :
         /\ FilesOf({q}) \subseteq DOMAIN archive[1]
         /\ load(files, q) = load(archive[1], q)
    /\ DOMAIN files \ DOMAIN archive[1] # {}

----------------------------------------------------------------------------
(* C19 *)

\* the metadata files of the directory fs
JsonFiles(fs) == {f \in DOMAIN fs : f[2] = ".json"}

\* the rows of the frame df whose cache_file and query_string columns hold these values
RowsOf(df, cache_file, query) ==
    {i \in 1..Len(df.rows) :
        /\ column(df, "cache_file")[i] = cache_file
        /\ column(df, "query_string")[i] = query}

\* list() has one row per metadata file, hence at least one per entry and exactly one
\* per entry when each metadata file has its payload; the one row of a query whose
\* metadata is stored holds the base name of its payload file and the stored query text
C19_OneRowPerMetadata ==
    \A o \in glob_json(files) :
        LET L == list(files, o)
        IN  /\ Len(L.rows) = Cardinality(JsonFiles(files))
            /\ Len(L.rows) >= Cardinality(Keys(Cached(files)))
            /\ EveryListedHasPayload(files) => Len(L.rows) = Cardinality(Keys(Cached(files)))
            /\ \A q \in workload :
                 path_exists(files, get_metadata_filepath(q))
                 => Cardinality(RowsOf(L, Str(get_cache_filepath(q)), Str(Stored(q)))) = 1

\* a call that writes under a key whose metadata file is there leaves list() with as
\* many rows as it had
C19_StepOfRedump ==
    \A q \in workload :
        ( /\ call'[1].query_string = q
          /\ call'[1] # call[1]
          /\ path_exists(files, get_metadata_filepath(q)) )
        => \A o \in glob_json(files) : \A o2 \in glob_json(files') :
              Len(list(files', o2).rows) = Len(list(files, o).rows)

\* C19: list() returns one row per metadata artifact: N rows after dumping N queries
\* of distinct keys, no further row when a cached key is dumped again, and in each
\* row the payload's base name and the stored query text of its query.
C19_ListRows == []C19_OneRowPerMetadata /\ [][C19_StepOfRedump]_vars

\* two entries of distinct keys are listed, the second dump having been made on a
\* key that was cached already
C19_Witness ==
    /\ Finished(1)
    /\ call[1].op = "dump"
    /\ call[1].raised = ""
    /\ call[1].results = <<R2>>
    /\ Cardinality(Keys(Cached(files))) = 2
    /\ Cardinality(DOMAIN files) = 4
    /\ \A o \in glob_json(files) : Len(list(files, o).rows) = 2

----------------------------------------------------------------------------
(* C20 *)

\* C20: a call list() on a store without files returns a frame without rows whose
\* columns are query, cache_file, executed_at, duration, in that order; a call that
\* returns rows returns them under columns of those names, among others.
C20_StepOfList ==
    ( /\ Starts(1)
      /\ call'[1].op = "list" )
    => LET L == FileStore_columns(call'[1].returned[1])
       IN  /\ files' = files
           /\ files = <<>> =>
                /\ L.rows = <<>>
                /\ L.columns = <<"query", "cache_file", "executed_at", "duration">>
           /\ L.rows # <<>> =>
                {"query", "cache_file", "executed_at", "duration"} \subseteq Range(L.columns)

----------------------------------------------------------------------------
(* C21 *)

\* this step ends a call query(q, ...) of caller 1 without an exception
QueryReturns(q) ==
    /\ Returns(1)
    /\ call'[1].op = "query"
    /\ call'[1].query_string = q

\* C21, as a property of each step: the session grows by the raw text q, and by
\* nothing else, in the step in which a call query(q, ...) returns, whichever branch
\* served it; it is left as it was by every other step, a failing query included
\* (so it is a set that only grows: a text is in it once, and none is removed).
C21_StepOfSession ==
    /\ \A q \in workload :
         QueryReturns(q) => /\ session' = session \cup {q}
                            /\ q \in session => session' = session
    /\ (~ \E q \in workload : QueryReturns(q)) => session' = session
    /\ session \subseteq session'

\* C21: the session is empty at construction and is, after any calls, the set of the
\* raw texts of the query calls that returned.
C21_SessionIsQueried ==
    /\ (files = <<>> /\ \A p \in Procs : call[p] = NoCall) => session = {}
    /\ [][C21_StepOfSession]_vars

\* two texts that share one entry of a normalizing store are both in the session, the
\* last call having been served from the cache for a text the session already held
C21_Witness ==
    /\ normalize
    /\ session = {qa, qb}
    /\ Cardinality(Keys(Cached(files))) = 1
    /\ Finished(1)
    /\ call[1].op = "query"
    /\ call[1].executed = 0
    /\ call[1].raised = ""

----------------------------------------------------------------------------
(* C22 *)

\* the operations that write a frame through a serializer: the serializer's own dump,
\* and dump_results of a FileStore constructed with that backend
SerializerDumps == {"serializer.dump", "FileStore.dump_results"}

\* the file a call of SerializerDumps writes
DumpedFile(c) ==
    <<IF c.op = "serializer.dump" THEN 0 ELSE hash_query(c.query_string, normalize),
      IF c.backend = "parquet" THEN ".parquet" ELSE ".joblib">>

\* C22, as a property of each step: a frame with a column of Python objects, dumped
\* with the parquet backend through the serializer or through the store, raises the
\* same ValueError, whose message names store_backend='joblib', and writes no file;
\* with the joblib backend the same call succeeds and writes the file; a frame of
\* representable columns is accepted by both.
C22_StepOfSerializerDump ==
    (Starts(1) /\ call'[1].op \in SerializerDumps)
    => LET c == call'[1]
           T == c.results[1]
       IN  /\ (c.backend = "parquet" /\ arrow_invalid(T)) =>
                 /\ c.raised = FormatUnsupported
                 /\ c.raised = ParquetSerializer_dump(files, T, tmp_file(ParquetSerializer)).raised
                 /\ remediation(c.raised) = "store_backend='joblib'"
                 /\ files' = files
           /\ (c.backend = "joblib" \/ ~arrow_invalid(T)) =>
                 /\ c.raised = ""
                 /\ path_exists(files', DumpedFile(c))
                 /\ \A f \in DOMAIN files \ {DumpedFile(c)} : files'[f] = files[f]

C22_FormatRejection == [][C22_StepOfSerializerDump]_vars

\* the parquet store has rejected, with the hint, the frame of uuids that the joblib
\* store holds for the same query
C22_Witness ==
    /\ Finished(1)
    /\ call[1].op = "FileStore.dump_results"
    /\ call[1].backend = "parquet"
    /\ call[1].results = <<Ruuid>>
    /\ call[1].raised = FormatUnsupported
    /\ FileStore_load_results(JoblibSerializer, files, call[1].query_string) = Returned(Ruuid)
    /\ FileStore_load_results(ParquetSerializer, files, call[1].query_string).raised # ""

----------------------------------------------------------------------------
(* C23 *)

\* the frames are equal in columns and their order, in rows and their order, and in
\* every value
SameTable(T1, T2) ==
    /\ T1.columns = T2.columns
    /\ Len(T1.rows) = Len(T2.rows)
    /\ \A r \in 1..Len(T1.rows) : T1.rows[r] = T2.rows[r]
    /\ T1 = T2

\* each format gives back the frame it was given
C23_FormatsRoundTrip ==
    \A T \in Tables \cup Results :
        /\ SameTable(joblib_load(joblib_dump(T)), T)
        /\ ~arrow_invalid(T) => SameTable(read_parquet(to_parquet(T)), T)

\* what the load that matches the dump c returns on the directory fs
LoadAfter(c, fs) ==
    LET s == IF c.backend = "parquet" THEN ParquetSerializer ELSE JoblibSerializer
    IN  CASE c.op = "serializer.dump"        -> Serializer_load(s, fs, tmp_file(s))
          [] c.op = "FileStore.dump_results" -> FileStore_load_results(s, fs, c.query_string)
          [] c.op = "dump_results"           -> load_results(fs, c.query_string)

\* a dump of a frame T that succeeds, through either serializer or through the store's
\* dump_results, is followed by a load that returns a frame equal to T; and a load
\* returns a frame that was dumped
C23_StepOfDumpThenLoad ==
    /\ ( /\ Starts(1)
         /\ call'[1].op \in SerializerDumps \cup {"dump_results"}
         /\ call'[1].raised = "" )
       => LET l == LoadAfter(call'[1], files')
          IN  /\ l.raised = ""
              /\ SameTable(l.value[1], call'[1].results[1])
    /\ ( /\ Starts(1)
         /\ call'[1].op \in {"serializer.load", "FileStore.load_results", "load_results"}
         /\ call'[1].raised = "" )
       => \E T \in Tables \cup Results : SameTable(call'[1].returned[1], T)

----------------------------------------------------------------------------
(* normalize_query and hash_query on their own, for C24 and C25 *)

\* texts that end in a statement of three tokens, up to two tokens before it: their
\* lengths reach from below max_length to above it
GuardQueries == {pre \o q : pre \in QueriesUpTo(2), q \in {qa, qc}}

\* the texts normalize_query is given
NormalizeInputs == AllQueries \cup WorkloadQueries \cup GuardQueries

\* one text per run
NormalizeInit ==
    /\ normalize \in BOOLEAN
    /\ memo = lru_cache
    /\ files = <<>>
    /\ archive = <<>>
    /\ session = {}
    /\ workload \in {{q} : q \in NormalizeInputs}
    /\ pc = [p \in Procs |-> "idle"]
    /\ call = [p \in Procs |-> NoCall]

\* the text the next call is given: the run's text, or what the last call of
\* normalize_query returned
NextInputs(p) ==
    workload \cup (IF call[p].op = "normalize_query" THEN {call[p].returned[1]} ELSE {})

\* normalize_query(query), max_length being left at its default
NormalizeQuery(p) ==
    /\ pc[p] = "idle"
    /\ \E q \in NextInputs(p) :
         call' = [call EXCEPT ![p] =
             [Frame("normalize_query", q, <<>>, <<>>) EXCEPT
                 !.returned = <<normalize_query(q)>>]]
    /\ UNCHANGED <<normalize, memo, archive, files, session, workload, pc>>

\* hash_query(query_string, normalize=self.normalize), as the store's path methods call it
HashQuery(p) ==
    /\ pc[p] = "idle"
    /\ \E q \in NextInputs(p) :
         call' = [call EXCEPT ![p] =
             [Frame("hash_query", q, <<>>, <<>>) EXCEPT
                 !.returned = <<hash_query(q, normalize)>>]]
    /\ UNCHANGED <<normalize, memo, archive, files, session, workload, pc>>

NormalizeNext == NormalizeQuery(1) \/ HashQuery(1)

NormalizeSpec == NormalizeInit /\ [][NormalizeNext]_vars

----------------------------------------------------------------------------
(* normalize_query called through its lru_cache wrapper, for C32 *)

\* the max_length arguments callers give: one below the default, one above it
MaxLengths == {2, 5}

\* the argument tuples of the calls of normalize_query on the text q
ArgsOf(q) == {<<q>>} \cup {<<q, n>> : n \in MaxLengths}

\* normalize_query(query) or normalize_query(query, max_length), the decorated function
MemoNormalizeQuery(p) ==
    /\ pc[p] = "idle"
    /\ memo.hits + memo.misses < MaxCalls
    /\ \E q \in workload : \E args \in ArgsOf(q) :
         LET r == lru_cache_wrapper(memo, args)
         IN  /\ memo' = r.wrapper
             /\ call' = [call EXCEPT ![p] =
                    [Frame("normalize_query", q, <<>>, <<>>) EXCEPT
                        !.max_length = Tail(args),
                        !.executed   = r.wrapper.misses - memo.misses,
                        !.returned   = <<r.value>>]]
    /\ UNCHANGED <<normalize, archive, files, session, workload, pc>>

\* hash_query(query_string, normalize=self.normalize), as the store's path methods
\* call it, normalize_query being the decorated function
MemoHashQuery(p) ==
    /\ pc[p] = "idle"
    /\ memo.hits + memo.misses < MaxCalls
    /\ \E q \in workload :
         LET r == hash_query_cached(memo, q, normalize)
         IN  /\ memo' = r.wrapper
             /\ call' = [call EXCEPT ![p] =
                    [Frame("hash_query", q, <<>>, <<>>) EXCEPT
                        !.executed = r.wrapper.misses - memo.misses,
                        !.returned = <<r.value>>]]
    /\ UNCHANGED <<normalize, archive, files, session, workload, pc>>

MemoNext == MemoNormalizeQuery(1) \/ MemoHashQuery(1)

MemoSpec == StoreInit /\ [][MemoNext]_vars

----------------------------------------------------------------------------
(* C24 *)

\* C24, as a property of each step: normalize_query, given what its last call
\* returned, returns it again, whichever side of the size guard the first text was
\* on; and in a store that normalizes, the key of what normalize_query(x) returned is
\* the key of x.
C24_StepOfNormalizeAgain ==
    ( /\ call[1].op = "normalize_query"
      /\ Starts(1) \/ call'[1] = call[1]
      /\ call'[1].query_string = call[1].returned[1] )
    => /\ call'[1].op = "normalize_query" => call'[1].returned = call[1].returned
       /\ (call'[1].op = "hash_query" /\ normalize)
          => call'[1].returned = <<hash_query(call[1].query_string, TRUE)>>

C24_NormalizeIdempotent == [][C24_StepOfNormalizeAgain]_vars

\* a text within the guard was changed by normalize_query, and the result, given
\* back to normalize_query, was returned as it was
C24_Witness ==
    /\ call[1].op = "normalize_query"
    /\ call[1].query_string \notin workload
    /\ call[1].returned = <<call[1].query_string>>
    /\ \E q \in workload : Len(q) <= max_length /\ normalize_query(q) = call[1].query_string

----------------------------------------------------------------------------
(* C25 *)

\* C25, as a property of each step: normalize_query returns a text longer than
\* max_length as it is, and returns the formatted, stripped text for every text of at
\* most max_length, one of exactly max_length included.
C25_StepOfNormalize ==
    (Starts(1) /\ call'[1].op = "normalize_query")
    => LET q == call'[1].query_string
       IN  /\ Len(q) > max_length => call'[1].returned = <<q>>
           /\ Len(q) <= max_length =>
                 LET n == call'[1].returned[1]
                 IN  /\ n = sqlparse_format(strip(q))
                     /\ n = <<>> \/ (n[1] \notin Whitespace /\ n[Len(n)] \notin Whitespace)
                     /\ \A i \in 1..Len(n) : n[i] \notin {"select", "\t", "--c"}

C25_SizeGuard == [][C25_StepOfNormalize]_vars

\* a text of max_length + 1 tokens that starts with whitespace and has a lower-case
\* keyword was returned as it is, where a text of exactly max_length is changed
C25_Witness ==
    /\ call[1].op = "normalize_query"
    /\ Len(call[1].query_string) = max_length + 1
    /\ call[1].query_string[1] \in Whitespace
    /\ "select" \in Range(call[1].query_string)
    /\ call[1].returned = <<call[1].query_string>>
    /\ normalize_query(Tail(call[1].query_string)) # Tail(call[1].query_string)

----------------------------------------------------------------------------
(* C26 *)

\* the files of the directory fs whose name does not hold the key of q
FilesOfOtherKeys(fs, q) ==
    [f \in {g \in DOMAIN fs : g[1] # hash_query(q, normalize)} |-> fs[f]]

\* the queries of the workload whose key is not the key of q
OtherKeyQueries(q) ==
    {q2 \in workload : hash_query(q2, normalize) # hash_query(q, normalize)}

\* each write of a dump(q1, ...) leaves every file of another key as it was, and with
\* it what exists(q2) and load(q2) answer for every query q2 of another key
C26_StepOfWriter ==
    (pc'[1] # pc[1] \/ call'[1] # call[1])
    => LET q1 == call'[1].query_string
       IN  /\ FilesOfOtherKeys(files', q1) = FilesOfOtherKeys(files, q1)
           /\ \A q2 \in OtherKeyQueries(q1) :
                /\ exists(files', q2) = exists(files, q2)
                /\ load(files', q2) = load(files, q2)
                /\ Artifacts(files', q2) = Artifacts(files, q2)

\* what the reader has read so far in its call agrees with the directory as it is
\* now, wherever the writer stands: a call of the reader that is over has answered
\* what exists / load answer on this directory, and one that stands between its two
\* reads has read what is still there
C26_ReaderAgrees ==
    LET c  == call[2]
        q2 == c.query_string
    IN  /\ (pc[2] = "idle" /\ c.op = "exists") => c.returned = <<exists(files, q2)>>
        /\ (pc[2] = "idle" /\ c.op = "load") =>
              [raised |-> c.raised,
               value  |-> c.returned] = load(files, q2)
        /\ pc[2] = "exists_cache_file" => path_exists(files, get_metadata_filepath(q2))
        /\ pc[2] = "load_metadata" => Returned(c.results[1]) = load_results(files, q2)

\* C26: while a writer performs dump(q1, ...), exists(q2) and load(q2) of a reader,
\* for q2 of another key, answer at every interleaving with the writer's two writes
\* what they answer without the dump; the dump changes no artifact of another key.
C26_ReadersOfOtherKeys == []C26_ReaderAgrees /\ [][C26_StepOfWriter]_vars

\* the reader has loaded the entry of q2 while the writer stood between the payload
\* write and the metadata write of a dump under another key
C26_Witness ==
    /\ pc[1] = "dump_metadata"
    /\ pc[2] = "idle"
    /\ call[2].op = "load"
    /\ call[2].raised = ""
    /\ call[2].returned[1][1] = R2
    /\ call[1].results = <<R1>>
    /\ Artifacts(files, call[1].query_string) = {".parquet"}
    /\ call[2].query_string \in OtherKeyQueries(call[1].query_string)

----------------------------------------------------------------------------
(* C27 *)

\* C27, as a property of each step of each operation (dump and its parts, load and
\* its parts, exists, list, export, import_cache, export_session and query with any
\* flags, whether the call succeeds or raises): no file of the directory is removed,
\* so a query that exists still exists afterwards.
C27_StepKeepsPresent ==
    /\ DOMAIN files \subseteq DOMAIN files'
    /\ \A q \in workload : exists(files, q) => exists(files', q)

C27_PresentStaysPresent == [][C27_StepKeepsPresent]_vars

\* a dump has failed at its metadata write on a query that exists, in a store whose
\* files include every member of the archive
C27_Witness ==
    /\ Finished(1)
    /\ call[1].op = "dump"
    /\ call[1].raised = "TypeError"
    /\ exists(files, call[1].query_string)
    /\ archive # <<>>
    /\ DOMAIN archive[1] # {}
    /\ DOMAIN archive[1] \subseteq DOMAIN files

----------------------------------------------------------------------------
(* C28 *)

\* a call query(q, force=True) of caller 1, made when q was cached, has returned
ForcedRefreshReturned(q) ==
    /\ Finished(1)
    /\ call[1].op = "query"
    /\ call[1].query_string = q
    /\ call[1].force /\ call[1].cache /\ call[1].cached
    /\ call[1].executed = 1
    /\ call[1].raised = ""

\* C28, as a property of each step: when a forced query on a cached q returns, q's
\* entry is the result of that execution together with the metadata of that
\* execution; and the query(q) with default flags that follows does not execute,
\* returns that result, and finds the executed_at and duration of the forced
\* execution in the metadata it loads and in what load_metadata(q) returns.
C28_StepOfHitAfterForce ==
    \A q \in workload :
        /\ ( /\ pc[1] = "dump_metadata"
             /\ call[1].op = "query"
             /\ call[1].query_string = q
             /\ call[1].force /\ call[1].cached
             /\ Returns(1) )
           => /\ load(files', q) = Returned(<<call[1].results[1], call'[1].metadata[1]>>)
              /\ \A k \in {"executed_at", "duration"} :
                    call'[1].metadata[1][k] = call[1].metadata[1][k]
        /\ (ForcedRefreshReturned(q) /\ StartsQuery(1, q, FALSE, TRUE))
           => /\ pc'[1] = "idle"
              /\ call'[1].raised = ""
              /\ call'[1].executed = 0
              /\ call'[1].returned = call[1].returned
              /\ call'[1].returned = call[1].results
              /\ LET m == load_metadata(files', q)
                 IN  /\ m.raised = ""
                     /\ m.value = call'[1].metadata
                     /\ \A k \in {"executed_at", "duration"} :
                           m.value[1][k] = call[1].metadata[1][k]

C28_HitAfterForce == [][C28_StepOfHitAfterForce]_vars

\* a forced query has returned on a q that was cached when it began, and q's entry
\* is now that execution's result and metadata
C28_Witness ==
    \E q \in workload :
        /\ ForcedRefreshReturned(q)
        /\ call[1].returned = <<R2>>
        /\ load(files, q) = Returned(<<R2, call[1].metadata[1]>>)
        /\ "db_name" \in DOMAIN call[1].metadata[1]

----------------------------------------------------------------------------
(* C29 *)

\* C29: in every state reached from the empty store by dump (also when it fails at
\* either write, and between its two writes), export and import_cache of the archive
\* export wrote, every row of list(), in whatever order the directory is listed,
\* names a payload file that is present and a query for which exists() is true.
C29_ListedAreComplete ==
    \A o \in glob_json(files) :
        LET L == list(files, o)
        IN  \A i \in 1..Len(L.rows) :
              /\ path_exists(files, column(L, "cache_file")[i][2])
              /\ exists(files, column(L, "query_string")[i][2])

\* the store lists one entry and holds besides it the payload a failed dump left
\* under another key, after an import
C29_Witness ==
    /\ Finished(1)
    /\ call[1].op = "import_cache"
    /\ call[1].raised = ""
    /\ Cardinality(JsonFiles(files)) = 1
    /\ Cardinality(DOMAIN files) = 3
    /\ Cardinality(DOMAIN archive[1]) = 1
    /\ \A o \in glob_json(files) : Len(list(files, o).rows) = 1

----------------------------------------------------------------------------
(* C30 *)

\* C30, as a property of each step: a call query(q, ...) that executes (on a miss, on
\* a forced refresh or with cache=False) and whose _query raises is over in that
\* step with _query's exception and without a result; no file is written, so an
\* entry of q is what it was and an absent one is still absent; and the session is
\* what it was.
C30_StepOfFailedExecution ==
    \A q \in workload :
        ( /\ Starts(1)
          /\ call'[1].op = "query"
          /\ call'[1].query_string = q
          /\ call'[1].raised = "DatabaseError" )
        => /\ call'[1].executed = 1
           /\ ~use_cache(q, call'[1].force, call'[1].cache)
           /\ pc'[1] = "idle"
           /\ call'[1].returned = <<>>
           /\ files' = files
           /\ exists(files', q) = exists(files, q)
           /\ load(files', q) = load(files, q)
           /\ session' = session

C30_FailedExecution == [][C30_StepOfFailedExecution]_vars

\* a forced refresh of a cached q has failed in _query: q's entry is still there and
\* q is not in the session
C30_Witness ==
    /\ Finished(1)
    /\ call[1].op = "query"
    /\ call[1].raised = "DatabaseError"
    /\ call[1].force /\ call[1].cache /\ call[1].cached
    /\ exists(files, call[1].query_string)
    /\ load(files, call[1].query_string).raised = ""
    /\ call[1].query_string \notin session

-----------------------------------------------------------------------------
\* Two writers of one key

\* caller p stands between the two writes of a dump under q's key
Writing(pcs, calls, p, q) ==
    /\ pcs[p] = "dump_metadata"
    /\ hash_query(calls[p].query_string, normalize) = hash_query(q, normalize)

\* at most one writer per key at a time
OneWriterPerKey(pcs, calls) ==
    \A q \in workload : \A p, o \in Procs :
        Writing(pcs, calls, p, q) /\ Writing(pcs, calls, o, q) => p = o

\* the payload under q's key is the one a dump of caller p wrote
PayloadBy(fs, p, q) ==
    /\ get_cache_filepath(q) \in DOMAIN fs
    /\ fs[get_cache_filepath(q)] = to_parquet(OwnResults(p))

\* the metadata under q's key is the one a dump of caller p wrote
MetadataBy(fs, p, q) ==
    /\ get_metadata_filepath(q) \in DOMAIN fs
    /\ json_loads(fs[get_metadata_filepath(q)])["executed_at"] = Str(p)

\* q's entry pairs the payload of one caller's dump with the metadata of the other's
Mixed(fs, q) ==
    /\ exists(fs, q)
    /\ \E p, o \in Procs : p # o /\ PayloadBy(fs, p, q) /\ MetadataBy(fs, o, q)

\* what dumps leave when writers take turns on each key: one writer per key, a key
\* being written holds its writer's payload, and a key nobody is writing is not mixed
WritersInTurn(fs, pcs, calls) ==
    /\ OneWriterPerKey(pcs, calls)
    /\ \A q \in workload :
         /\ \A p \in Procs : Writing(pcs, calls, p, q) => PayloadBy(fs, p, q)
         /\ (\A p \in Procs : ~Writing(pcs, calls, p, q)) => ~Mixed(fs, q)

\* C31, as a property of each step: from a state that writers taking turns have left,
\* a write that does not put a second writer on a key leaves such a state again.
C31_StepOfWriterInTurn ==
    (WritersInTurn(files, pc, call) /\ OneWriterPerKey(pc', call'))
    => WritersInTurn(files', pc', call')

\* C31: two dumps of one key that overlap can leave the key with the payload of one
\* and the metadata of the other while exists(q) is true (the witness below); with at
\* most one writer per key at a time, successful dumps never leave a key so: the
\* empty store is not mixed, and every write of a writer in turn keeps it so.
C31_MixedOnlyByOverlap ==
    WritersInTurn(files, pc, call) /\ [][C31_StepOfWriterInTurn]_vars

\* both dumps of one key have returned without raising, q exists, and its payload is
\* the one caller 1 wrote while its metadata is the one caller 2 wrote
C31_Witness ==
    \E q \in workload :
        /\ \A p \in Procs : pc[p] = "idle" /\ call[p].op = "dump" /\ call[p].raised = ""
        /\ hash_query(call[1].query_string, normalize) = hash_query(q, normalize)
        /\ hash_query(call[2].query_string, normalize) = hash_query(q, normalize)
        /\ exists(files, q)
        /\ PayloadBy(files, 1, q) /\ MetadataBy(files, 2, q)
        /\ Mixed(files, q)

-----------------------------------------------------------------------------
\* The memoization of normalize_query

\* the argument tuple of the call of normalize_query in frame c
ArgsIn(c) == <<c.query_string>> \o c.max_length

\* the keys the cache holds
CachedKeys(w) == {w.cache[i][1] : i \in DOMAIN w.cache}

\* a sequence without its last element
Front(s) == SubSeq(s, 1, Len(s) - 1)

\* the cache holds at most maxsize entries, one per key, and what it holds for a key is
\* what the function returns for it
C32_CacheBounded ==
    /\ Len(memo.cache) <= maxsize
    /\ \A i, j \in DOMAIN memo.cache : memo.cache[i][1] = memo.cache[j][1] => i = j
    /\ \A i \in DOMAIN memo.cache : memo.cache[i][2] = user_function(memo.cache[i][1])
    /\ Len(memo.cache) = IF memo.misses < maxsize THEN memo.misses ELSE maxsize

\* as a property of each step: a call of the decorated normalize_query returns what
\* the function it wraps returns for the same arguments, hit or miss, whatever the
\* cache held; a hit leaves the same entries and a miss on a full cache drops the
\* least recently used one, the key of the call becoming the most recently used; and
\* hash_query through the wrapper returns the key hash_query derives without it.
C32_StepOfMemoizedCall ==
    /\ call'[1].op = "normalize_query" =>
         LET args == ArgsIn(call'[1])
             hit  == args \in CachedKeys(memo)
             rest == Front(memo'.cache)
         IN  /\ call'[1].returned = <<user_function(args)>>
             /\ memo'.cache # <<>>
             /\ memo'.cache[Len(memo'.cache)] = <<args, user_function(args)>>
             /\ hit  => /\ call'[1].executed = 0
                        /\ CachedKeys(memo') = CachedKeys(memo)
                        /\ rest = SelectSeq(memo.cache, LAMBDA e : e[1] # args)
             /\ ~hit => /\ call'[1].executed = 1
                        /\ rest = IF Len(memo.cache) = maxsize
                                  THEN Tail(memo.cache) ELSE memo.cache
    /\ call'[1].op = "hash_query" =>
         call'[1].returned = <<hash_query(call'[1].query_string, normalize)>>

\* C32: the cache of normalize_query never holds more than maxsize entries, the least
\* recently used one being evicted first, and every call through it, after hits,
\* misses and evictions and with max_length given or left at its default, returns
\* what the unmemoized function returns, so that the keys hash_query derives do not
\* depend on what the cache holds.
C32_MemoBoundedAndTransparent == []C32_CacheBounded /\ [][C32_StepOfMemoizedCall]_vars

\* after more misses than the cache has room for, a call with max_length left at its
\* default was a hit, while the full cache also holds an entry of the same text
\* under a given max_length whose result is another
C32_Witness ==
    /\ call[1].op = "normalize_query"
    /\ call[1].max_length = <<>>
    /\ call[1].executed = 0
    /\ memo.hits > 0
    /\ memo.misses > maxsize
    /\ Len(memo.cache) = maxsize
    /\ \E n \in MaxLengths :
         /\ <<call[1].query_string, n>> \in CachedKeys(memo)
         /\ user_function(<<call[1].query_string, n>>) # call[1].returned[1]

=============================================================================
